---- MODULE Spec2Model ----
(***************************************************************************)
(* Harmony engine of vibe-project: the music-theory tables, the note       *)
(* normalisation helpers, the chord suggestion engine (suggerer_accords)   *)
(* the scoring key detector (detecter_tonalite), the hidden Markov model    *)
(* with its Viterbi decoder and the melody entry points, as a machine that *)
(* receives a call, runs the called function and returns.                  *)
(***************************************************************************)
EXTENDS Integers, Sequences, FiniteSets, Bags, TLC

\* pc, op, args, result: the call in progress; hmm: the engine's hidden Markov
\* model; locals: the local variables of a function that runs step by step
VARIABLES pc, op, args, result, hmm, locals

vars == <<pc, op, args, result, hmm, locals>>

(***************************************************************************)
(* music_theory.py: the static tables.  A Python dict is a function whose  *)
(* DOMAIN is its key set; its iteration order is kept apart as a sequence. *)
(***************************************************************************)
GAMMES ==
     "Do Majeur" :> <<"C", "D", "E", "F", "G", "A", "B">>
  @@ "Do# Majeur" :> <<"C#", "D#", "E#", "F#", "G#", "A#", "B#">>
  @@ "Ré Majeur" :> <<"D", "E", "F#", "G", "A", "B", "C#">>
  @@ "Ré# Majeur" :> <<"D#", "E#", "F##", "G#", "A#", "B#", "C##">>
  @@ "Mi Majeur" :> <<"E", "F#", "G#", "A", "B", "C#", "D#">>
  @@ "Fa Majeur" :> <<"F", "G", "A", "Bb", "C", "D", "E">>
  @@ "Fa# Majeur" :> <<"F#", "G#", "A#", "B", "C#", "D#", "E#">>
  @@ "Sol Majeur" :> <<"G", "A", "B", "C", "D", "E", "F#">>
  @@ "Sol# Majeur" :> <<"G#", "A#", "B#", "C#", "D#", "E#", "F##">>
  @@ "La Majeur" :> <<"A", "B", "C#", "D", "E", "F#", "G#">>
  @@ "La# Majeur" :> <<"A#", "B#", "C##", "D#", "E#", "F##", "G##">>
  @@ "Si Majeur" :> <<"B", "C#", "D#", "E", "F#", "G#", "A#">>
  @@ "Do Mineur" :> <<"C", "D", "Eb", "F", "G", "Ab", "Bb">>
  @@ "Do# Mineur" :> <<"C#", "D#", "E", "F#", "G#", "A", "B">>
  @@ "Ré Mineur" :> <<"D", "E", "F", "G", "A", "Bb", "C">>
  @@ "Ré# Mineur" :> <<"D#", "E#", "F#", "G#", "A#", "B", "C#">>
  @@ "Mi Mineur" :> <<"E", "F#", "G", "A", "B", "C", "D">>
  @@ "Fa Mineur" :> <<"F", "G", "Ab", "Bb", "C", "Db", "Eb">>
  @@ "Fa# Mineur" :> <<"F#", "G#", "A", "B", "C#", "D", "E">>
  @@ "Sol Mineur" :> <<"G", "A", "Bb", "C", "D", "Eb", "F">>
  @@ "Sol# Mineur" :> <<"G#", "A#", "B", "C#", "D#", "E", "F#">>
  @@ "La Mineur" :> <<"A", "B", "C", "D", "E", "F", "G">>
  @@ "La# Mineur" :> <<"A#", "B#", "C#", "D#", "E#", "F#", "G#">>
  @@ "Si Mineur" :> <<"B", "C#", "D", "E", "F#", "G", "A">>

\* list(GAMMES.keys()): the declaration (iteration) order of the 24 keys
Tonalites ==
  <<"Do Majeur", "Do# Majeur", "Ré Majeur", "Ré# Majeur", "Mi Majeur",
    "Fa Majeur", "Fa# Majeur", "Sol Majeur", "Sol# Majeur", "La Majeur",
    "La# Majeur", "Si Majeur",
    "Do Mineur", "Do# Mineur", "Ré Mineur", "Ré# Mineur", "Mi Mineur",
    "Fa Mineur", "Fa# Mineur", "Sol Mineur", "Sol# Mineur", "La Mineur",
    "La# Mineur", "Si Mineur">>

PALETTES ==
     "Do Majeur" :> <<"C", "Dm", "Em", "F", "G", "Am", "Bdim">>
  @@ "Do# Majeur" :> <<"C#", "D#m", "E#m", "F#", "G#", "A#m", "B#dim">>
  @@ "Ré Majeur" :> <<"D", "Em", "F#m", "G", "A", "Bm", "C#dim">>
  @@ "Ré# Majeur" :> <<"D#", "E#m", "F##m", "G#", "A#", "B#m", "C##dim">>
  @@ "Mi Majeur" :> <<"E", "F#m", "G#m", "A", "B", "C#m", "D#dim">>
  @@ "Fa Majeur" :> <<"F", "Gm", "Am", "Bb", "C", "Dm", "Edim">>
  @@ "Fa# Majeur" :> <<"F#", "G#m", "A#m", "B", "C#", "D#m", "E#dim">>
  @@ "Sol Majeur" :> <<"G", "Am", "Bm", "C", "D", "Em", "F#dim">>
  @@ "Sol# Majeur" :> <<"G#", "A#m", "B#m", "C#", "D#", "E#m", "F##dim">>
  @@ "La Majeur" :> <<"A", "Bm", "C#m", "D", "E", "F#m", "G#dim">>
  @@ "La# Majeur" :> <<"A#", "B#m", "C##m", "D#", "E#", "F##m", "G##dim">>
  @@ "Si Majeur" :> <<"B", "C#m", "D#m", "E", "F#", "G#m", "A#dim">>
  @@ "Do Mineur" :> <<"Cm", "Ddim", "Eb", "Fm", "Gm", "Ab", "Bb">>
  @@ "Do# Mineur" :> <<"C#m", "D#dim", "E", "F#m", "G#m", "A", "B">>
  @@ "Ré Mineur" :> <<"Dm", "Edim", "F", "Gm", "Am", "Bb", "C">>
  @@ "Ré# Mineur" :> <<"D#m", "E#dim", "F#", "G#m", "A#m", "B", "C#">>
  @@ "Mi Mineur" :> <<"Em", "F#dim", "G", "Am", "Bm", "C", "D">>
  @@ "Fa Mineur" :> <<"Fm", "Gdim", "Ab", "Bbm", "Cm", "Db", "Eb">>
  @@ "Fa# Mineur" :> <<"F#m", "G#dim", "A", "Bm", "C#m", "D", "E">>
  @@ "Sol Mineur" :> <<"Gm", "Adim", "Bb", "Cm", "Dm", "Eb", "F">>
  @@ "Sol# Mineur" :> <<"G#m", "A#dim", "B", "C#m", "D#m", "E", "F#">>
  @@ "La Mineur" :> <<"Am", "Bdim", "C", "Dm", "Em", "F", "G">>
  @@ "La# Mineur" :> <<"A#m", "B#dim", "C#", "D#m", "E#m", "F#", "G#">>
  @@ "Si Mineur" :> <<"Bm", "C#dim", "D", "Em", "F#m", "G", "A">>

FONCTIONS_MAJEUR ==
     1 :> "Tonique"
  @@ 2 :> "Sous-dominante"
  @@ 3 :> "Tonique"
  @@ 4 :> "Sous-dominante"
  @@ 5 :> "Dominante"
  @@ 6 :> "Tonique"
  @@ 7 :> "Dominante"

FONCTIONS_MINEUR ==
     1 :> "Tonique"
  @@ 2 :> "Sous-dominante"
  @@ 3 :> "Tonique"
  @@ 4 :> "Sous-dominante"
  @@ 5 :> "Dominante"
  @@ 6 :> "Sous-dominante"
  @@ 7 :> "Dominante"

CONTENU_ACCORDS ==
     "C" :> <<"C", "E", "G">>
  @@ "C#" :> <<"C#", "E#", "G#">>
  @@ "D" :> <<"D", "F#", "A">>
  @@ "D#" :> <<"D#", "F##", "A#">>
  @@ "E" :> <<"E", "G#", "B">>
  @@ "F" :> <<"F", "A", "C">>
  @@ "F#" :> <<"F#", "A#", "C#">>
  @@ "G" :> <<"G", "B", "D">>
  @@ "G#" :> <<"G#", "B#", "D#">>
  @@ "A" :> <<"A", "C#", "E">>
  @@ "A#" :> <<"A#", "C##", "E#">>
  @@ "B" :> <<"B", "D#", "F#">>
  @@ "Bb" :> <<"Bb", "D", "F">>
  @@ "Eb" :> <<"Eb", "G", "Bb">>
  @@ "Ab" :> <<"Ab", "C", "Eb">>
  @@ "Db" :> <<"Db", "F", "Ab">>
  @@ "Cm" :> <<"C", "Eb", "G">>
  @@ "C#m" :> <<"C#", "E", "G#">>
  @@ "Dm" :> <<"D", "F", "A">>
  @@ "D#m" :> <<"D#", "F#", "A#">>
  @@ "Em" :> <<"E", "G", "B">>
  @@ "E#m" :> <<"E#", "G#", "B#">>
  @@ "Fm" :> <<"F", "Ab", "C">>
  @@ "F#m" :> <<"F#", "A", "C#">>
  @@ "F##m" :> <<"F##", "A#", "C##">>
  @@ "Gm" :> <<"G", "Bb", "D">>
  @@ "G#m" :> <<"G#", "B", "D#">>
  @@ "Am" :> <<"A", "C", "E">>
  @@ "A#m" :> <<"A#", "C#", "E#">>
  @@ "Bm" :> <<"B", "D", "F#">>
  @@ "B#m" :> <<"B#", "D#", "F##">>
  @@ "Bbm" :> <<"Bb", "Db", "F">>
  @@ "Ebm" :> <<"Eb", "Gb", "Bb">>
  @@ "Abm" :> <<"Ab", "Cb", "Eb">>
  @@ "C##m" :> <<"C##", "E#", "G##">>
  @@ "Bdim" :> <<"B", "D", "F">>
  @@ "B#dim" :> <<"B#", "D#", "F#">>
  @@ "C#dim" :> <<"C#", "E", "G">>
  @@ "C##dim" :> <<"C##", "E#", "G#">>
  @@ "Ddim" :> <<"D", "F", "Ab">>
  @@ "D#dim" :> <<"D#", "F#", "A">>
  @@ "Edim" :> <<"E", "G", "Bb">>
  @@ "E#dim" :> <<"E#", "G#", "B">>
  @@ "F#dim" :> <<"F#", "A", "C">>
  @@ "F##dim" :> <<"F##", "A#", "C#">>
  @@ "Gdim" :> <<"G", "Bb", "Db">>
  @@ "G#dim" :> <<"G#", "B", "D">>
  @@ "G##dim" :> <<"G##", "B#", "D#">>
  @@ "Adim" :> <<"A", "C", "Eb">>
  @@ "A#dim" :> <<"A#", "C#", "E">>

\* the local dict of normaliser_note_enharmonique
equivalences ==
     "C#" :> "Db"
  @@ "Db" :> "C#"
  @@ "D#" :> "Eb"
  @@ "Eb" :> "D#"
  @@ "E#" :> "F"
  @@ "Fb" :> "E"
  @@ "F#" :> "Gb"
  @@ "Gb" :> "F#"
  @@ "G#" :> "Ab"
  @@ "Ab" :> "G#"
  @@ "A#" :> "Bb"
  @@ "Bb" :> "A#"
  @@ "B#" :> "C"
  @@ "Cb" :> "B"

(***************************************************************************)
(* Python values.  None is a value of its own; a call either returns a     *)
(* value or raises.                                                        *)
(***************************************************************************)
None == "<None>"

Return(v) == [exc |-> "", val |-> v]

Raise(e) == [exc |-> e, val |-> <<>>]

\* x in seq
In(x, seq) == \E i \in 1..Len(seq) : seq[i] = x

\* seq.index(x), 0-based, for x in seq
ListIndex(seq, x) ==
  (CHOOSE i \in 1..Len(seq) : seq[i] = x /\ \A j \in 1..(i - 1) : seq[j] # x) - 1

\* d.get(k, default)
DictGet(d, k, default) == IF k \in DOMAIN d THEN d[k] ELSE default

(***************************************************************************)
(* The strings the model passes around, each with its characters: note     *)
(* names, and note tokens that carry an octave.                            *)
(***************************************************************************)
NomsDeNotes ==
  {"C", "C#", "C##", "Cb", "D", "D#", "Db", "E", "E#", "Eb", "F", "F#", "F##", "Fb", "G", "G#", "G##", "Gb", "A", "A#", "Ab", "B", "B#", "Bb", "X"}

Jetons ==
  {"C4", "E4", "G4", "C5", "D4", "F#4", "A4", "D5", "Db4", "B#3", "4"}

Chars ==
     "" :> <<>>
  @@ "C" :> <<"C">>
  @@ "C#" :> <<"C", "#">>
  @@ "C##" :> <<"C", "#", "#">>
  @@ "Cb" :> <<"C", "b">>
  @@ "D" :> <<"D">>
  @@ "D#" :> <<"D", "#">>
  @@ "Db" :> <<"D", "b">>
  @@ "E" :> <<"E">>
  @@ "E#" :> <<"E", "#">>
  @@ "Eb" :> <<"E", "b">>
  @@ "F" :> <<"F">>
  @@ "F#" :> <<"F", "#">>
  @@ "F##" :> <<"F", "#", "#">>
  @@ "Fb" :> <<"F", "b">>
  @@ "G" :> <<"G">>
  @@ "G#" :> <<"G", "#">>
  @@ "G##" :> <<"G", "#", "#">>
  @@ "Gb" :> <<"G", "b">>
  @@ "A" :> <<"A">>
  @@ "A#" :> <<"A", "#">>
  @@ "Ab" :> <<"A", "b">>
  @@ "B" :> <<"B">>
  @@ "B#" :> <<"B", "#">>
  @@ "Bb" :> <<"B", "b">>
  @@ "X" :> <<"X">>
  @@ "C4" :> <<"C", "4">>
  @@ "E4" :> <<"E", "4">>
  @@ "G4" :> <<"G", "4">>
  @@ "C5" :> <<"C", "5">>
  @@ "D4" :> <<"D", "4">>
  @@ "F#4" :> <<"F", "#", "4">>
  @@ "A4" :> <<"A", "4">>
  @@ "D5" :> <<"D", "5">>
  @@ "Db4" :> <<"D", "b", "4">>
  @@ "B#3" :> <<"B", "#", "3">>
  @@ "4" :> <<"4">>
  @@ "F4" :> <<"F", "4">>
  @@ "B4" :> <<"B", "4">>
  @@ "A3" :> <<"A", "3">>
  @@ "B3" :> <<"B", "3">>
  @@ "G5" :> <<"G", "5">>

Digits == {"0", "1", "2", "3", "4", "5", "6", "7", "8", "9"}

RECURSIVE Join(_)
\* ''.join(chars)
Join(chars) == IF chars = <<>> THEN "" ELSE Head(chars) \o Join(Tail(chars))

IsNotDigit(c) == c \notin Digits

\* normaliser_note: drops every digit character of the token
normaliser_note(note) == Join(SelectSeq(Chars[note], IsNotDigit))

\* normaliser_note_enharmonique: equivalences.get(note_norm, note_norm)
normaliser_note_enharmonique(note) ==
  LET note_norm == normaliser_note(note)
  IN  DictGet(equivalences, note_norm, note_norm)

(***************************************************************************)
(* HarmonyEngine: degree, function and chord-content helpers.              *)
(***************************************************************************)
\* the names t for which the test  "Majeur" in t  is true
AvecMajeur ==
  {"Do Majeur", "Do# Majeur", "Ré Majeur", "Ré# Majeur", "Mi Majeur",
   "Fa Majeur", "Fa# Majeur", "Sol Majeur", "Sol# Majeur", "La Majeur",
   "La# Majeur", "Si Majeur", "Ut Majeur"}

\* the degree (1..7) of a note in a scale, None when it has none:
\* direct match first, then the enharmonic equivalent
DegreDansGamme(note_norm, gamme) ==
  IF In(note_norm, gamme)
  THEN ListIndex(gamme, note_norm) + 1
  ELSE LET note_equiv == normaliser_note_enharmonique(note_norm)
       IN  IF In(note_equiv, gamme)
           THEN ListIndex(gamme, note_equiv) + 1
           ELSE 0

get_degree_of_note(note, tonalite) ==
  LET gamme == DictGet(GAMMES, tonalite, <<>>)
  IN  IF gamme = <<>>
      THEN 0
      ELSE DegreDansGamme(normaliser_note(note), gamme)

Fonctions(tonalite) ==
  IF tonalite \in AvecMajeur THEN FONCTIONS_MAJEUR ELSE FONCTIONS_MINEUR

\* get_fonction as it would be if the mode of the key were not looked at
get_fonction_sansMode(degre, tonalite) == DictGet(FONCTIONS_MAJEUR, degre, "Inconnu")

get_fonction(degre, tonalite) == DictGet(Fonctions(tonalite), degre, "Inconnu")

get_accords_by_fonction(fonction, tonalite) ==
  LET palette   == DictGet(PALETTES, tonalite, <<>>)
      fonctions == Fonctions(tonalite)
      KeepDegre(degre) == fonctions[degre] = fonction /\ 1 <= degre /\ degre <= Len(palette)
      degres    == SelectSeq(<<1, 2, 3, 4, 5, 6, 7>>, KeepDegre)
  IN  [i \in 1..Len(degres) |-> palette[degres[i]]]

accord_contient_note(accord, note) ==
  LET notes_accord == DictGet(CONTENU_ACCORDS, accord, <<>>)
      note_norm    == normaliser_note(note)
  IN  \/ In(note_norm, notes_accord)
      \/ In(normaliser_note_enharmonique(note_norm), notes_accord)

(***************************************************************************)
(* HarmonyEngine.suggerer_accords, step by step.  A suggestion is the dict *)
(* {"accord", "priorite", "raison"}.                                       *)
(***************************************************************************)
Suggestion(accord, priorite, raison) ==
  [accord |-> accord, priorite |-> priorite, raison |-> raison]

\* the truth value of an Optional[str]: None and "" are false
Truthy(s) == s # None /\ s # ""

\* DejaSuggere as it would be if the "already suggested" test were left out
DejaSuggere_jamais(suggestions, accord) == FALSE

\* any(s["accord"] == accord for s in suggestions)
DejaSuggere(suggestions, accord) ==
  \E i \in 1..Len(suggestions) : suggestions[i].accord = accord

RECURSIVE InsertParPriorite(_, _)
\* places x after every entry whose priority is not greater: the sort is stable
InsertParPriorite(triees, x) ==
  IF triees = <<>> THEN <<x>>
  ELSE IF triees[Len(triees)].priorite <= x.priorite
       THEN Append(triees, x)
       ELSE Append(InsertParPriorite(SubSeq(triees, 1, Len(triees) - 1), x),
                   triees[Len(triees)])

RECURSIVE TrierParPrioriteJusqua(_, _)
TrierParPrioriteJusqua(suggestions, n) ==
  IF n = 0 THEN <<>>
  ELSE InsertParPriorite(TrierParPrioriteJusqua(suggestions, n - 1), suggestions[n])

\* sorted(suggestions, key=lambda x: x["priorite"])
TrierParPriorite(suggestions) == TrierParPrioriteJusqua(suggestions, Len(suggestions))

RECURSIVE BoucleHorsGamme(_, _, _, _)
BoucleHorsGamme(suggestions, palette, i, note) ==
  IF i > Len(palette) THEN suggestions
  ELSE BoucleHorsGamme(
         IF accord_contient_note(palette[i], note)
         THEN Append(suggestions,
                     Suggestion(palette[i], 4, "Accord hors gamme contenant cette note"))
         ELSE suggestions,
         palette, i + 1, note)

\* SuggestionsHorsGamme as it would be if the off-scale branch did not filter
\* the palette by the note
SuggestionsHorsGamme_sansFiltre(note_actuelle, tonalite_choisie) ==
  [i \in 1..Len(PALETTES[tonalite_choisie]) |->
     Suggestion(PALETTES[tonalite_choisie][i], 4,
                "Accord hors gamme contenant cette note")]

\* the branch taken when the note has no degree in the key
SuggestionsHorsGamme(note_actuelle, tonalite_choisie) ==
  BoucleHorsGamme(<<>>, PALETTES[tonalite_choisie], 1, note_actuelle)

\* Priorite1 as it would be if the degree were looked up in the scale
\* instead of the palette
Priorite1_dansLaGamme(suggestions, degre, tonalite_choisie) ==
  LET gamme == GAMMES[tonalite_choisie]
  IN  IF 1 <= degre /\ degre <= Len(gamme)
      THEN Append(suggestions,
                  Suggestion(gamme[degre], 1,
                             "Accord du degré " \o ToString(degre) \o " ("
                               \o get_fonction(degre, tonalite_choisie) \o ")"))
      ELSE suggestions

\* PRIORITE 1: the chord of the degree
Priorite1(suggestions, degre, tonalite_choisie) ==
  LET palette == PALETTES[tonalite_choisie]
  IN  IF 1 <= degre /\ degre <= Len(palette)
      THEN Append(suggestions,
                  Suggestion(palette[degre], 1,
                             "Accord du degré " \o ToString(degre) \o " ("
                               \o get_fonction(degre, tonalite_choisie) \o ")"))
      ELSE suggestions

RECURSIVE BouclePriorite2(_, _, _, _, _)
BouclePriorite2(suggestions, accords, i, accord_degre, fonction_note) ==
  IF i > Len(accords) THEN suggestions
  ELSE BouclePriorite2(
         IF accords[i] # accord_degre
         THEN Append(suggestions,
                     Suggestion(accords[i], 2, "Autre accord de " \o fonction_note))
         ELSE suggestions,
         accords, i + 1, accord_degre, fonction_note)

\* PRIORITE 2: the other chords of the same function
Priorite2(suggestions, degre, tonalite_choisie) ==
  LET fonction_note == get_fonction(degre, tonalite_choisie)
  IN  BouclePriorite2(suggestions,
                      get_accords_by_fonction(fonction_note, tonalite_choisie), 1,
                      PALETTES[tonalite_choisie][degre], fonction_note)

RECURSIVE BoucleContient(_, _, _, _, _, _)
\* for accord in accords: if the chord contains the note and is not yet
\* suggested, append it with the given priority and reason
BoucleContient(suggestions, accords, i, note, priorite, raison) ==
  IF i > Len(accords) THEN suggestions
  ELSE BoucleContient(
         IF /\ accord_contient_note(accords[i], note)
            /\ ~DejaSuggere(suggestions, accords[i])
         THEN Append(suggestions, Suggestion(accords[i], priorite, raison))
         ELSE suggestions,
         accords, i + 1, note, priorite, raison)

\* palette.index(accord_precedent): raises ValueError when it is absent
PaletteIndex(palette, accord) ==
  IF In(accord, palette) THEN Return(ListIndex(palette, accord))
  ELSE Raise("ValueError")

\* ResolutionHarmonique as it would be without the except clause: the
\* ValueError of palette.index leaves the function
ResolutionHarmonique_sansExcept(suggestions, note_actuelle, tonalite_choisie, accord_precedent) ==
  IF ~Truthy(accord_precedent) THEN Return(suggestions)
  ELSE LET idx == PaletteIndex(PALETTES[tonalite_choisie], accord_precedent)
       IN  IF idx.exc # "" THEN idx
           ELSE IF get_fonction(idx.val + 1, tonalite_choisie) = "Dominante"
                THEN Return(BoucleContient(
                              suggestions,
                              get_accords_by_fonction("Tonique", tonalite_choisie), 1,
                              note_actuelle, 3, "Résolution de Dominante vers Tonique"))
                ELSE Return(suggestions)

\* PRIORITE 3: resolution of a Dominante towards the Toniques, inside
\* try: ... except ValueError: pass
ResolutionHarmonique(suggestions, note_actuelle, tonalite_choisie, accord_precedent) ==
  IF ~Truthy(accord_precedent) THEN Return(suggestions)
  ELSE LET idx == PaletteIndex(PALETTES[tonalite_choisie], accord_precedent)
       IN  IF idx.exc = "ValueError" THEN Return(suggestions)
           ELSE IF get_fonction(idx.val + 1, tonalite_choisie) = "Dominante"
                THEN Return(BoucleContient(
                              suggestions,
                              get_accords_by_fonction("Tonique", tonalite_choisie), 1,
                              note_actuelle, 3, "Résolution de Dominante vers Tonique"))
                ELSE Return(suggestions)

\* PRIORITE 4: the remaining palette chords that contain the note
Priorite4(suggestions, note_actuelle, tonalite_choisie) ==
  BoucleContient(suggestions, PALETTES[tonalite_choisie], 1, note_actuelle, 4,
                 "Contient cette note")

suggerer_accords(note_actuelle, tonalite_choisie, accord_precedent) ==
  LET palette == DictGet(PALETTES, tonalite_choisie, <<>>)
      degre   == get_degree_of_note(note_actuelle, tonalite_choisie)
  IN  IF palette = <<>> THEN Return(<<>>)
      ELSE IF degre = 0
      THEN Return(TrierParPriorite(SuggestionsHorsGamme(note_actuelle, tonalite_choisie)))
      ELSE LET s1 == Priorite1(<<>>, degre, tonalite_choisie)
               s2 == Priorite2(s1, degre, tonalite_choisie)
               r3 == ResolutionHarmonique(s2, note_actuelle, tonalite_choisie,
                                          accord_precedent)
           IN  IF r3.exc # "" THEN r3
               ELSE Return(TrierParPriorite(
                             Priorite4(r3.val, note_actuelle, tonalite_choisie)))

(***************************************************************************)
(* Arithmetic of the hidden Markov model.  A probability is the exact      *)
(* rational it stands for; the rounding of floating-point operations is    *)
(* not modelled.  An entry of a matrix is a fraction num/den of small      *)
(* integers.  A product of entries, as Viterbi forms them, is kept as the  *)
(* product of the numerators, a natural number of any size, over the bag   *)
(* of the denominators.  A natural number of any size is the sequence of   *)
(* its base-10000 digits, least significant first, without leading zero.   *)
(***************************************************************************)
RECURSIVE BigOfInt(_)
BigOfInt(n) == IF n = 0 THEN <<>> ELSE <<n % 10000>> \o BigOfInt(n \div 10000)

RECURSIVE BigMulSmallFrom(_, _, _, _)
\* the digits of a from position i on, times k, plus the carry
BigMulSmallFrom(a, k, i, carry) ==
  IF i > Len(a) THEN BigOfInt(carry)
  ELSE LET x == a[i] * k + carry
       IN  <<x % 10000>> \o BigMulSmallFrom(a, k, i + 1, x \div 10000)

\* a * k for a small natural k > 0
BigMulSmall(a, k) == BigMulSmallFrom(a, k, 1, 0)

RECURSIVE BigMulBag(_, _)
\* a times every element of a bag of small naturals
BigMulBag(a, facteurs) ==
  IF facteurs = EmptyBag THEN a
  ELSE LET k == CHOOSE x \in BagToSet(facteurs) : TRUE
       IN  BigMulBag(BigMulSmall(a, k), facteurs (-) SetToBag({k}))

BigLess(a, b) ==
  IF Len(a) # Len(b) THEN Len(a) < Len(b)
  ELSE \E i \in 1..Len(a) : a[i] < b[i] /\ \A j \in (i + 1)..Len(a) : a[j] = b[j]

\* an entry of a matrix
Frac(n, d) == [num |-> n, den |-> d]

\* the probability an entry stands for
ProbOfFrac(f) == [num |-> BigOfInt(f.num), den |-> SetToBag({f.den})]

\* p * f for a probability p and an entry f
ProbMul(p, f) == [num |-> BigMulSmall(p.num, f.num), den |-> p.den (+) SetToBag({f.den})]

\* p < q: the denominators the two have in common cancel
ProbLess(p, q) ==
  IF p.den = q.den THEN BigLess(p.num, q.num)
  ELSE BigLess(BigMulBag(p.num, q.den (-) p.den), BigMulBag(q.num, p.den (-) q.den))

\* p and q are the same number
ProbEq(p, q) ==
  BigMulBag(p.num, q.den (-) p.den) = BigMulBag(q.num, p.den (-) q.den)

\* the list of the values f[1], ..., f[n]
Liste(f, n) == SubSeq(f, 1, n)

(***************************************************************************)
(* HiddenMarkovModel: construction.                                        *)
(***************************************************************************)
note_mapping ==
     "Do" :> "C" @@ "Do#" :> "C#" @@ "Ré" :> "D" @@ "Ré#" :> "D#"
  @@ "Mi" :> "E" @@ "Fa" :> "F" @@ "Fa#" :> "F#" @@ "Sol" :> "G"
  @@ "Sol#" :> "G#" @@ "La" :> "A" @@ "La#" :> "A#" @@ "Si" :> "B"

\* self.notes: the 12 observations
notes_hmm == <<"C", "C#", "D", "D#", "E", "F", "F#", "G", "G#", "A", "A#", "B">>

\* tonalite.split(): the words of each key name
Mots ==
     "Do Majeur" :> <<"Do", "Majeur">>
  @@ "Do# Majeur" :> <<"Do#", "Majeur">>
  @@ "Ré Majeur" :> <<"Ré", "Majeur">>
  @@ "Ré# Majeur" :> <<"Ré#", "Majeur">>
  @@ "Mi Majeur" :> <<"Mi", "Majeur">>
  @@ "Fa Majeur" :> <<"Fa", "Majeur">>
  @@ "Fa# Majeur" :> <<"Fa#", "Majeur">>
  @@ "Sol Majeur" :> <<"Sol", "Majeur">>
  @@ "Sol# Majeur" :> <<"Sol#", "Majeur">>
  @@ "La Majeur" :> <<"La", "Majeur">>
  @@ "La# Majeur" :> <<"La#", "Majeur">>
  @@ "Si Majeur" :> <<"Si", "Majeur">>
  @@ "Do Mineur" :> <<"Do", "Mineur">>
  @@ "Do# Mineur" :> <<"Do#", "Mineur">>
  @@ "Ré Mineur" :> <<"Ré", "Mineur">>
  @@ "Ré# Mineur" :> <<"Ré#", "Mineur">>
  @@ "Mi Mineur" :> <<"Mi", "Mineur">>
  @@ "Fa Mineur" :> <<"Fa", "Mineur">>
  @@ "Fa# Mineur" :> <<"Fa#", "Mineur">>
  @@ "Sol Mineur" :> <<"Sol", "Mineur">>
  @@ "Sol# Mineur" :> <<"Sol#", "Mineur">>
  @@ "La Mineur" :> <<"La", "Mineur">>
  @@ "La# Mineur" :> <<"La#", "Mineur">>
  @@ "Si Mineur" :> <<"Si", "Mineur">>

tonalite_to_english_note(tonalite) ==
  LET note_fr == Mots[tonalite][1]
  IN  DictGet(note_mapping, note_fr, note_fr)

circle == <<"C", "G", "D", "A", "E", "B", "F#", "C#", "G#", "D#", "A#", "F">>

\* the shorter way round the circle of fifths; 6 when a note is not on it
get_circle_of_fifths_distance(note1, note2) ==
  IF In(note1, circle) /\ In(note2, circle)
  THEN LET idx1 == ListIndex(circle, note1)
           idx2 == ListIndex(circle, note2)
           ecart == IF idx2 >= idx1 THEN idx2 - idx1 ELSE idx1 - idx2
       IN  IF ecart <= 12 - ecart THEN ecart ELSE 12 - ecart
  ELSE 6

are_relative_keys(ton1, ton2) ==
  LET note1 == tonalite_to_english_note(ton1)
      note2 == tonalite_to_english_note(ton2)
      is_major1 == ton1 \in AvecMajeur
      is_major2 == ton2 \in AvecMajeur
  IN  IF is_major1 = is_major2 THEN FALSE
      ELSE LET idx1 == ListIndex(notes_hmm, note1)
               idx2 == ListIndex(notes_hmm, note2)
           IN  IF is_major1
               THEN (idx1 - 3) % 12 = idx2
               ELSE (idx1 + 3) % 12 = idx2

\* the weight of the transition from key i to key j before normalisation,
\* in ten-thousandths: 0.90, 0.02, 0.03, 0.005, 0.0001, 0.001
PoidsTransition(i, j) ==
  LET ton1 == Tonalites[i]
      ton2 == Tonalites[j]
  IN  IF i = j THEN 9000
      ELSE IF are_relative_keys(ton1, ton2) THEN 200
      ELSE LET distance == get_circle_of_fifths_distance(tonalite_to_english_note(ton1),
                                                         tonalite_to_english_note(ton2))
           IN  IF distance = 1 THEN 300
               ELSE IF distance = 2 THEN 50
               ELSE IF distance = 6 THEN 1
               ELSE 10

\* the weight of note j in key i before normalisation, in hundredths:
\* 0.01 off the scale, 0.25 tonic, 0.20 dominant, 0.15 leading tone, 0.10
PoidsEmission(i, j) ==
  LET degre == DegreDansGamme(normaliser_note(notes_hmm[j]), GAMMES[Tonalites[i]])
  IN  IF degre = 0 THEN 1
      ELSE IF degre = 1 THEN 25
      ELSE IF degre = 5 THEN 20
      ELSE IF degre = 7 THEN 15
      ELSE 10

RECURSIVE Somme(_, _)
\* the sum of the first n weights of a row
Somme(ligne, n) == IF n = 0 THEN 0 ELSE Somme(ligne, n - 1) + ligne[n]

RECURSIVE DiviserJusqua(_, _, _)
DiviserJusqua(ligne, total, n) ==
  IF n = 0 THEN <<>>
  ELSE Append(DiviserJusqua(ligne, total, n - 1), Frac(ligne[n], total))

\* NormaliserLigne as it would be without the division by the row's total
NormaliserLigne_sansDivision(ligne, unite) == DiviserJusqua(ligne, unite, Len(ligne))

\* matrix[i, :] /= total, when total > 0: a row of weights (in 1/unite) becomes
\* a row of probabilities
NormaliserLigne(ligne, unite) ==
  LET total == Somme(ligne, Len(ligne))
  IN  DiviserJusqua(ligne, IF total > 0 THEN total ELSE unite, Len(ligne))

RECURSIVE MatriceJusqua(_, _, _, _)
\* the first n rows of a matrix of weights, each normalised
MatriceJusqua(poids, n, colonnes, unite) ==
  IF n = 0 THEN <<>>
  ELSE Append(MatriceJusqua(poids, n - 1, colonnes, unite),
              NormaliserLigne(Liste(poids[n], colonnes), unite))

build_transition_matrix ==
  MatriceJusqua([i \in 1..Len(Tonalites) |-> [j \in 1..Len(Tonalites) |-> PoidsTransition(i, j)]],
                Len(Tonalites), Len(Tonalites), 10000)

build_emission_matrix ==
  MatriceJusqua([i \in 1..Len(Tonalites) |-> [j \in 1..Len(notes_hmm) |-> PoidsEmission(i, j)]],
                Len(Tonalites), Len(notes_hmm), 100)

\* np.ones(n_states) / n_states
build_initial_probabilities == [s \in 1..Len(Tonalites) |-> Frac(1, Len(Tonalites))]

\* HiddenMarkovModel(): the three matrices of a constructed model
HiddenMarkovModel ==
  [transition_matrix     |-> build_transition_matrix,
   emission_matrix       |-> build_emission_matrix,
   initial_probabilities |-> build_initial_probabilities]

(***************************************************************************)
(* HiddenMarkovModel.viterbi                                               *)
(***************************************************************************)
\* ObsIndex as it would be if an unknown token fell back on the last note
ObsIndex_repliSurSi(obs) ==
  LET obs_norm == normaliser_note(obs)
  IN  IF In(obs_norm, notes_hmm) THEN ListIndex(notes_hmm, obs_norm) + 1
      ELSE LET obs_equiv == normaliser_note_enharmonique(obs_norm)
           IN  IF In(obs_equiv, notes_hmm) THEN ListIndex(notes_hmm, obs_equiv) + 1
               ELSE Len(notes_hmm)

\* the index (from 1) of an observed token among the 12 observations: the
\* normalised name, else its enharmonic equivalent, else the first one
ObsIndex(obs) ==
  LET obs_norm == normaliser_note(obs)
  IN  IF In(obs_norm, notes_hmm) THEN ListIndex(notes_hmm, obs_norm) + 1
      ELSE LET obs_equiv == normaliser_note_enharmonique(obs_norm)
           IN  IF In(obs_equiv, notes_hmm) THEN ListIndex(notes_hmm, obs_equiv) + 1
               ELSE 1

\* delta[0, :] = initial_probabilities * emission_matrix[:, obs_0]
DeltaInitial(model, obs_0) ==
  Liste([s \in 1..Len(Tonalites) |->
           ProbMul(ProbOfFrac(model.initial_probabilities[s]), model.emission_matrix[s][obs_0])],
        Len(Tonalites))

RECURSIVE ArgMaxEntre(_, _, _)
\* np.argmax over probs[premier..dernier]: the first index that holds the
\* greatest value
ArgMaxEntre(probs, premier, dernier) ==
  IF premier = dernier THEN premier
  ELSE LET milieu == (premier + dernier) \div 2
           gauche == ArgMaxEntre(probs, premier, milieu)
           droite == ArgMaxEntre(probs, milieu + 1, dernier)
       IN  IF ProbLess(probs[gauche], probs[droite]) THEN droite ELSE gauche

\* ArgMax as it would be if it took the first index whatever the values
ArgMax_premier(probs) == 1

ArgMax(probs) == ArgMaxEntre(probs, 1, Len(probs))

\* np.max and np.argmax of
\*   probs = delta[t-1, :] * transition_matrix[:, j] * emission_matrix[j, obs_t]
MeilleurPredecesseur(model, avant, j, obs_t) ==
  LET probs == Liste([i \in 1..Len(avant) |->
                        ProbMul(ProbMul(avant[i], model.transition_matrix[i][j]),
                                model.emission_matrix[j][obs_t])],
                     Len(avant))
      argmax == ArgMax(probs)
  IN  [max |-> probs[argmax], argmax |-> argmax]

\* the row t of delta and psi: one entry per state j
Recurrence(model, avant, obs_t) ==
  LET m == Liste([j \in 1..Len(avant) |-> MeilleurPredecesseur(model, avant, j, obs_t)],
                 Len(avant))
  IN  [delta |-> Liste([j \in 1..Len(avant) |-> m[j].max], Len(avant)),
       psi   |-> Liste([j \in 1..Len(avant) |-> m[j].argmax], Len(avant))]

\* delta and psi with the row of one more observation
Prolonger(model, tables, obs_t) ==
  LET ligne == Recurrence(model, tables.delta[Len(tables.delta)], obs_t)
  IN  [delta |-> Append(tables.delta, ligne.delta), psi |-> Append(tables.psi, ligne.psi)]

RECURSIVE Avancer(_, _, _)
\* delta and psi, rows 1..t (row 1 of psi is never read)
Avancer(model, obs_indices, t) ==
  IF t = 1
  THEN [delta |-> <<DeltaInitial(model, obs_indices[1])>>,
        psi   |-> <<[s \in 1..Len(Tonalites) |-> 1]>>]
  ELSE LET jusque_la == Avancer(model, obs_indices, t - 1)
       IN  Prolonger(model, jusque_la, obs_indices[t])

RECURSIVE Backtracking(_, _, _)
\* path_indices[t..T]: path_indices[t] = psi[t+1, path_indices[t+1]]
Backtracking(tables, dernier, t) ==
  IF t = Len(tables.psi) THEN <<dernier>>
  ELSE LET suite == Backtracking(tables, dernier, t + 1)
       IN  <<tables.psi[t + 1][suite[1]]>> \o suite

\* the best final state, the path that leads to it and the value of delta
\* along it
Terminaison(tables) ==
  LET T == Len(tables.delta)
      path_indices == Backtracking(tables, ArgMax(tables.delta[T]), 1)
  IN  [path          |-> [t \in 1..T |-> Tonalites[path_indices[t]]],
       probabilities |-> [t \in 1..T |-> tables.delta[t][path_indices[t]]]]

ObsIndices(observations) == [t \in 1..Len(observations) |-> ObsIndex(observations[t])]

\* obs_indices[0] of an empty list raises IndexError
viterbi(model, observations) ==
  IF observations = <<>> THEN Raise("IndexError")
  ELSE Return(Terminaison(Avancer(model, ObsIndices(observations), Len(observations))))

(***************************************************************************)
(* The machine: a call arrives with its arguments, the function runs, the  *)
(* caller takes the result.                                                *)
(***************************************************************************)
NoArgs == <<>>

NoResult == Return(<<>>)

\* the 24 keys of the table and a name that is not in it
TonalitesDemandees == DOMAIN GAMMES \cup {"Ut Majeur"}

\* every chord name of the tables, a name of none, the empty string, None
AccordsPrecedents ==
  DOMAIN CONTENU_ACCORDS
    \cup {PALETTES[t][d] : t \in DOMAIN PALETTES, d \in 1..7}
    \cup {"Zz", "", None}

NotesDemandees == (NomsDeNotes \cup Jetons)

NoLocals == <<>>

\* HarmonyEngine(): the engine holds a constructed model; nothing is running
Init ==
  /\ pc = "idle"
  /\ op = ""
  /\ args = NoArgs
  /\ result = NoResult
  /\ hmm = HiddenMarkovModel
  /\ locals = NoLocals

Call_suggerer_accords ==
  /\ pc = "idle"
  /\ \E note \in NotesDemandees, tonalite \in TonalitesDemandees,
        accord \in AccordsPrecedents :
       args' = [note_actuelle |-> note, tonalite_choisie |-> tonalite,
                accord_precedent |-> accord]
  /\ op' = "suggerer_accords"
  /\ pc' = "called"
  /\ UNCHANGED result
  /\ UNCHANGED <<hmm, locals>>

Run_suggerer_accords ==
  /\ pc = "called"
  /\ op = "suggerer_accords"
  /\ result' = suggerer_accords(args.note_actuelle, args.tonalite_choisie,
                                args.accord_precedent)
  /\ pc' = "done"
  /\ UNCHANGED <<op, args>>
  /\ UNCHANGED <<hmm, locals>>

Respond ==
  /\ pc = "done"
  /\ pc' = "idle"
  /\ op' = ""
  /\ args' = NoArgs
  /\ result' = NoResult
  /\ UNCHANGED <<hmm, locals>>

NextSuggestion ==
  \/ Call_suggerer_accords
  \/ Run_suggerer_accords
  \/ Respond

SpecSuggestion == Init /\ [][NextSuggestion]_vars

(***************************************************************************)
(* HarmonyEngine.detecter_tonalite: the scoring key detector.              *)
(***************************************************************************)
\* the number of notes a requested melody may have
MaxNotes == 3

\* the number of notes of a melody built from one key's degrees 1, 5 and 7
MaxNotesDegres == 5

RECURSIVE Counter(_)
\* collections.Counter over a sequence: the distinct elements in the order
\* they were first met, and the number of occurrences of each
Counter(elements) ==
  IF elements = <<>> THEN [ordre |-> <<>>, compte |-> <<>>]
  ELSE LET avant == Counter(SubSeq(elements, 1, Len(elements) - 1))
           e     == elements[Len(elements)]
       IN  IF In(e, avant.ordre)
           THEN [ordre  |-> avant.ordre,
                 compte |-> [avant.compte EXCEPT
                               ![ListIndex(avant.ordre, e) + 1] = @ + 1]]
           ELSE [ordre  |-> Append(avant.ordre, e),
                 compte |-> Append(avant.compte, 1)]

\* PointsDuDegre as it would be without the branch of the leading tone
PointsDuDegre_sansSensible(degre) ==
  IF degre = 0 THEN 0
  ELSE IF degre = 1 THEN 3
  ELSE IF degre = 5 THEN 2
  ELSE 1

\* the points of a degree; 0 stands for "not in the scale"
PointsDuDegre(degre) ==
  IF degre = 0 THEN 0
  ELSE IF degre = 1 THEN 3
  ELSE IF degre = 5 THEN 2
  ELSE IF degre = 7 THEN 2
  ELSE 1

\* Accumuler as it would be with "=" written for "+="
Accumuler_ecrase(score, points, frequence) == points * frequence

\* score += points * frequence
Accumuler(score, points, frequence) == score + points * frequence

RECURSIVE ScoreJusqua(_, _, _)
\* the inner loop over notes_comptees.items(), up to its n-th item
ScoreJusqua(gamme, notes_comptees, n) ==
  IF n = 0 THEN 0
  ELSE LET note_norm == normaliser_note(notes_comptees.ordre[n])
       IN  Accumuler(ScoreJusqua(gamme, notes_comptees, n - 1),
                     PointsDuDegre(DegreDansGamme(note_norm, gamme)),
                     notes_comptees.compte[n])

\* scores.items(): one (tonalite, score) per key, in the order of GAMMES
Scores(notes_a_analyser) ==
  LET notes_comptees ==
        Counter([i \in 1..Len(notes_a_analyser) |-> normaliser_note(notes_a_analyser[i])])
  IN  [k \in 1..Len(Tonalites) |->
         [tonalite |-> Tonalites[k],
          score    |-> ScoreJusqua(GAMMES[Tonalites[k]], notes_comptees,
                                   Len(notes_comptees.ordre))]]

RECURSIVE InsertParScore_avantEgaux(_, _)
\* InsertParScore as it would be if the descending order were obtained by
\* reversing an ascending sort: entries of equal score come out reversed
InsertParScore_avantEgaux(triees, x) ==
  IF triees = <<>> THEN <<x>>
  ELSE IF triees[Len(triees)].score > x.score
       THEN Append(triees, x)
       ELSE Append(InsertParScore_avantEgaux(SubSeq(triees, 1, Len(triees) - 1), x),
                   triees[Len(triees)])

RECURSIVE InsertParScore(_, _)
\* places x after every entry whose score is not smaller: descending, and
\* entries of equal score keep the order they came in
InsertParScore(triees, x) ==
  IF triees = <<>> THEN <<x>>
  ELSE IF triees[Len(triees)].score >= x.score
       THEN Append(triees, x)
       ELSE Append(InsertParScore(SubSeq(triees, 1, Len(triees) - 1), x),
                   triees[Len(triees)])

RECURSIVE TrierParScoreJusqua(_, _)
TrierParScoreJusqua(items, n) ==
  IF n = 0 THEN <<>>
  ELSE InsertParScore(TrierParScoreJusqua(items, n - 1), items[n])

\* sorted(scores.items(), key=lambda x: x[1], reverse=True)
TrierParScore(items) == TrierParScoreJusqua(items, Len(items))

\* seq[:n] for n >= 0
Premiers(seq, n) == SubSeq(seq, 1, IF n < Len(seq) THEN n ELSE Len(seq))

\* Derniers as it would be if the slice took the head of the list, seq[:n]
Derniers_enTete(seq, n) == SubSeq(seq, 1, IF n < Len(seq) THEN n ELSE Len(seq))

\* seq[-n:] for n > 0
Derniers(seq, n) == SubSeq(seq, (IF n < Len(seq) THEN Len(seq) - n ELSE 0) + 1, Len(seq))

\* liste_notes[-fenetre:] when a positive window is given; an Optional[int] is
\* <<>> for None and <<n>> for the integer n
NotesAAnalyser(liste_notes, fenetre) ==
  IF fenetre # <<>> /\ fenetre[1] > 0
  THEN Derniers(liste_notes, fenetre[1])
  ELSE liste_notes

detecter_tonalite(liste_notes, fenetre) ==
  IF liste_notes = <<>> THEN Return(<<>>)
  ELSE Return(Premiers(TrierParScore(Scores(NotesAAnalyser(liste_notes, fenetre))), 3))

\* the note tokens of the requested melodies
NotesMelodie == {"C", "C4", "G", "Db", "E#", "X"}

RECURSIVE Melodies(_, _)
\* the sequences of at most n notes of the set
Melodies(notes, n) ==
  IF n = 0 THEN {<<>>}
  ELSE LET plusCourtes == Melodies(notes, n - 1)
       IN  plusCourtes \cup
             {Append(m, x) : m \in {c \in plusCourtes : Len(c) = n - 1}, x \in notes}

\* None, and the integers from -1 to one more than the longest melody
Fenetres == {<<>>} \cup {<<n>> : n \in (-1)..(MaxNotes + 1)}

Call_detecter_tonalite ==
  /\ pc = "idle"
  /\ \E melodie \in Melodies(NotesMelodie, MaxNotes), fenetre \in Fenetres :
       args' = [liste_notes |-> melodie, fenetre |-> fenetre]
  /\ op' = "detecter_tonalite"
  /\ pc' = "called"
  /\ UNCHANGED result
  /\ UNCHANGED <<hmm, locals>>

\* a melody made only of the degree-1, degree-5 and degree-7 notes of a key
Call_detecter_tonalite_degres ==
  /\ pc = "idle"
  /\ \E k \in 1..Len(Tonalites) :
       \E melodie \in Melodies({GAMMES[Tonalites[k]][d] : d \in {1, 5, 7}},
                               MaxNotesDegres) :
         args' = [liste_notes |-> melodie, fenetre |-> <<>>, tonalite |-> Tonalites[k]]
  /\ op' = "detecter_tonalite"
  /\ pc' = "called"
  /\ UNCHANGED result
  /\ UNCHANGED <<hmm, locals>>

Run_detecter_tonalite ==
  /\ pc = "called"
  /\ op = "detecter_tonalite"
  /\ result' = detecter_tonalite(args.liste_notes, args.fenetre)
  /\ pc' = "done"
  /\ UNCHANGED <<op, args>>
  /\ UNCHANGED <<hmm, locals>>

NextDetection ==
  \/ Call_detecter_tonalite
  \/ Run_detecter_tonalite
  \/ Respond

SpecDetection == Init /\ [][NextDetection]_vars

NextDegres ==
  \/ Call_detecter_tonalite_degres
  \/ Run_detecter_tonalite
  \/ Respond

SpecDegres == Init /\ [][NextDegres]_vars

(***************************************************************************)
(* normaliser_note_enharmonique applied to a name, then to what it gave.   *)
(***************************************************************************)
Call_normaliser_note_enharmonique ==
  /\ pc = "idle"
  /\ \E note \in NotesDemandees :
       args' = [note |-> note, origine |-> note, applications |-> 1]
  /\ op' = "normaliser_note_enharmonique"
  /\ pc' = "called"
  /\ UNCHANGED result
  /\ UNCHANGED <<hmm, locals>>

Run_normaliser_note_enharmonique ==
  /\ pc = "called"
  /\ op = "normaliser_note_enharmonique"
  /\ result' = Return(normaliser_note_enharmonique(args.note))
  /\ pc' = "done"
  /\ UNCHANGED <<op, args>>
  /\ UNCHANGED <<hmm, locals>>

\* the caller passes the returned name to the function once more
Call_again_normaliser_note_enharmonique ==
  /\ pc = "done"
  /\ op = "normaliser_note_enharmonique"
  /\ args.applications = 1
  /\ args' = [note |-> result.val, origine |-> args.origine, applications |-> 2]
  /\ pc' = "called"
  /\ UNCHANGED <<op, result>>
  /\ UNCHANGED <<hmm, locals>>

NextNormalisation ==
  \/ Call_normaliser_note_enharmonique
  \/ Run_normaliser_note_enharmonique
  \/ Call_again_normaliser_note_enharmonique
  \/ Respond

SpecNormalisation == Init /\ [][NextNormalisation]_vars

(***************************************************************************)
(* Properties of suggerer_accords (checked under SpecSuggestion).          *)
(***************************************************************************)
\* the called function has run and its result is there to read
Done(f) == pc = "done" /\ op = f

\* the degrees of each harmonic function, per mode, as the key model states them
DegresDeFonction(majeur, fonction) ==
  IF fonction = "Tonique" THEN (IF majeur THEN {1, 3, 6} ELSE {1, 3})
  ELSE IF fonction = "Sous-dominante" THEN (IF majeur THEN {2, 4} ELSE {2, 4, 6})
  ELSE IF fonction = "Dominante" THEN {5, 7}
  ELSE {}

\* the first twelve keys of the table are the major ones
EstMajeure(tonalite) ==
  \E k \in 1..12 : Tonalites[k] = tonalite

FonctionAttendue(degre, tonalite) ==
  CHOOSE f \in {"Tonique", "Sous-dominante", "Dominante"} :
    degre \in DegresDeFonction(EstMajeure(tonalite), f)

\* the enharmonic partner a name is registered with, the name itself otherwise
Partenaire(nom) == IF nom \in DOMAIN equivalences THEN equivalences[nom] ELSE nom

\* the chord's registered notes hold the note's name or its partner
Contient(accord, note) ==
  /\ accord \in DOMAIN CONTENU_ACCORDS
  /\ \E i \in 1..Len(CONTENU_ACCORDS[accord]) :
       CONTENU_ACCORDS[accord][i] \in
         {normaliser_note(note), Partenaire(normaliser_note(note))}

\* the note's name or its partner is a note of the key's scale
DansLaGamme(note, tonalite) ==
  \E d \in 1..7 :
    GAMMES[tonalite][d] \in {normaliser_note(note), Partenaire(normaliser_note(note))}

Accords(suggestions) == [i \in 1..Len(suggestions) |-> suggestions[i].accord]

\* C1: for every key of the table, every note and every previous chord, the
\* list suggerer_accords returns has non-decreasing priorities and names no
\* chord twice.
C1_PrioritesCroissantesSansDoublon ==
  (Done("suggerer_accords") /\ args.tonalite_choisie \in DOMAIN GAMMES) =>
    /\ result.exc = ""
    /\ \A i, j \in 1..Len(result.val) :
         i < j => /\ result.val[i].priorite <= result.val[j].priorite
                  /\ result.val[i].accord # result.val[j].accord

\* C1 witness: after a Dominante, the tonic chord "C" that contains the note
\* is already first and is not listed again; the list has all of 1, 2 and 4.
C1_Witness ==
  /\ Done("suggerer_accords")
  /\ args = [note_actuelle |-> "C", tonalite_choisie |-> "Do Majeur",
             accord_precedent |-> "G"]
  /\ Accords(result.val) = <<"C", "Em", "Am", "F">>

\* C2: when the note has a degree d in the key, the first entry is the palette
\* chord of degree d at priority 1, no other entry has priority 1, and its
\* reason names d and the function of d in the key's mode.
C2_AccordDuDegreEnTete ==
  (/\ Done("suggerer_accords")
   /\ args.tonalite_choisie \in DOMAIN GAMMES
   /\ DansLaGamme(args.note_actuelle, args.tonalite_choisie)) =>
    LET d == get_degree_of_note(args.note_actuelle, args.tonalite_choisie)
    IN  /\ d \in 1..7
        /\ GAMMES[args.tonalite_choisie][d] \in
             {normaliser_note(args.note_actuelle),
              Partenaire(normaliser_note(args.note_actuelle))}
        /\ Len(result.val) >= 1
        /\ result.val[1].accord = PALETTES[args.tonalite_choisie][d]
        /\ result.val[1].priorite = 1
        /\ \A i \in 2..Len(result.val) : result.val[i].priorite # 1
        /\ result.val[1].raison =
             "Accord du degré " \o ToString(d) \o " ("
               \o FonctionAttendue(d, args.tonalite_choisie) \o ")"

\* C2 witness: an octave-bearing flat spelling matched through its partner,
\* Db4 as C#, degree 7 of Ré Majeur.
C2_Witness ==
  /\ Done("suggerer_accords")
  /\ args.note_actuelle = "Db4"
  /\ args.tonalite_choisie = "Ré Majeur"
  /\ result.val[1] = Suggestion("C#dim", 1, "Accord du degré 7 (Dominante)")

\* C3 as stated: suggerer_accords("A", "Sol Majeur", None) puts "Em" first,
\* as the chord of degree 6.
C3_Original ==
  (/\ Done("suggerer_accords")
   /\ args = [note_actuelle |-> "A", tonalite_choisie |-> "Sol Majeur",
              accord_precedent |-> None]) =>
    /\ Len(result.val) >= 1
    /\ result.val[1].accord = "Em"
    /\ result.val[1].raison = "Accord du degré 6 (Tonique)"

\* C3 amended: A is degree 2 of Sol Majeur, so suggerer_accords("A",
\* "Sol Majeur", None) puts "Am" first at priority 1 and its reason cites
\* degree 2 and its function, Sous-dominante.
C3_LaEnSolMajeur ==
  (/\ Done("suggerer_accords")
   /\ args = [note_actuelle |-> "A", tonalite_choisie |-> "Sol Majeur",
              accord_precedent |-> None]) =>
    /\ Len(result.val) >= 1
    /\ result.val[1] = Suggestion("Am", 1, "Accord du degré 2 (Sous-dominante)")

\* C3 witness: that call has run.
C3_Witness ==
  /\ Done("suggerer_accords")
  /\ args = [note_actuelle |-> "A", tonalite_choisie |-> "Sol Majeur",
             accord_precedent |-> None]
  /\ Len(result.val) = 4

\* C4: for a note with no degree in the key, the result is exactly the palette
\* chords that contain it (directly or through its partner), in palette order,
\* all at priority 4, whatever the previous chord.
C4_HorsGamme ==
  (/\ Done("suggerer_accords")
   /\ args.tonalite_choisie \in DOMAIN GAMMES
   /\ ~DansLaGamme(args.note_actuelle, args.tonalite_choisie)) =>
    LET ContientLaNote(accord) == Contient(accord, args.note_actuelle)
    IN  /\ result.exc = ""
        /\ Accords(result.val) =
             SelectSeq(PALETTES[args.tonalite_choisie], ContientLaNote)
        /\ \A i \in 1..Len(result.val) : result.val[i].priorite = 4

\* C4 witness: the off-scale call of the spec, C# in Do Majeur with a
\* previous chord that would otherwise trigger the resolution step.
C4_Witness ==
  /\ Done("suggerer_accords")
  /\ args = [note_actuelle |-> "C#", tonalite_choisie |-> "Do Majeur",
             accord_precedent |-> "G"]
  /\ result = Return(<<>>)

\* the previous chord is a palette chord of the key with function Dominante
PrecedentDominante(accord, tonalite) ==
  /\ tonalite \in DOMAIN PALETTES
  /\ \E d \in DegresDeFonction(EstMajeure(tonalite), "Dominante") :
       PALETTES[tonalite][d] = accord

\* C5: the resolution step never raises; without a Dominante palette chord
\* before, the output is the output with no previous chord; priority-3 entries
\* occur only after a Dominante, and each is a Tonique palette chord that
\* contains the note and is not listed at priority 1 or 2.
C5_ResolutionApresDominante ==
  Done("suggerer_accords") =>
    /\ result.exc = ""
    /\ ~PrecedentDominante(args.accord_precedent, args.tonalite_choisie) =>
         result = suggerer_accords(args.note_actuelle, args.tonalite_choisie, None)
    /\ \A i \in 1..Len(result.val) :
         result.val[i].priorite = 3 =>
           /\ PrecedentDominante(args.accord_precedent, args.tonalite_choisie)
           /\ \E d \in DegresDeFonction(EstMajeure(args.tonalite_choisie), "Tonique") :
                PALETTES[args.tonalite_choisie][d] = result.val[i].accord
           /\ Contient(result.val[i].accord, args.note_actuelle)
           /\ \A j \in 1..Len(result.val) :
                result.val[j].priorite \in {1, 2} =>
                  result.val[j].accord # result.val[i].accord

\* C5 witness: after the Dominante "G", the note B of Do Majeur gets the
\* Tonique "Em" at priority 3.
C5_Witness ==
  /\ Done("suggerer_accords")
  /\ args = [note_actuelle |-> "B", tonalite_choisie |-> "Do Majeur",
             accord_precedent |-> "G"]
  /\ result.val[3] = Suggestion("Em", 3, "Résolution de Dominante vers Tonique")

(***************************************************************************)
(* Properties of detecter_tonalite (checked under SpecDetection, C9 under  *)
(* SpecDegres) and of normaliser_note_enharmonique (SpecNormalisation).    *)
(***************************************************************************)
\* the position of a key in the 24-key table
Rang(tonalite) == CHOOSE k \in 1..Len(Tonalites) : Tonalites[k] = tonalite

\* the trailing window: the last min(w, len) notes for a positive window w,
\* every note otherwise
NotesRetenues(notes, fenetre) ==
  IF fenetre = <<>> \/ fenetre[1] <= 0 THEN notes
  ELSE LET m == IF fenetre[1] < Len(notes) THEN fenetre[1] ELSE Len(notes)
       IN  [i \in 1..m |-> notes[Len(notes) - m + i]]

\* the degree of a pitch name in a key: direct match, then its partner
DegreAttendu(nom, tonalite) ==
  IF \E d \in 1..7 : GAMMES[tonalite][d] = nom
  THEN CHOOSE d \in 1..7 : GAMMES[tonalite][d] = nom
  ELSE IF \E d \in 1..7 : GAMMES[tonalite][d] = Partenaire(nom)
       THEN CHOOSE d \in 1..7 : GAMMES[tonalite][d] = Partenaire(nom)
       ELSE 0

PointsAttendus(degre) ==
  CASE degre = 1 -> 3
    [] degre \in {5, 7} -> 2
    [] degre \in {2, 3, 4, 6} -> 1
    [] OTHER -> 0

RECURSIVE SommeDesPoints(_, _, _)
\* the sum, over the pitch names of the set, of points(degree) times the
\* number of notes that carry the name
SommeDesPoints(noms, tonalite, notes) ==
  IF noms = {} THEN 0
  ELSE LET nom == CHOOSE n \in noms : TRUE
       IN  PointsAttendus(DegreAttendu(nom, tonalite))
             * Cardinality({i \in 1..Len(notes) : normaliser_note(notes[i]) = nom})
           + SommeDesPoints(noms \ {nom}, tonalite, notes)

ScoreAttendu(tonalite, notes) ==
  SommeDesPoints({normaliser_note(notes[i]) : i \in 1..Len(notes)}, tonalite, notes)

\* entry a of a result comes before key k with score s in the ranking
Devance(a, k, s) == a.score > s \/ (a.score = s /\ Rang(a.tonalite) < k)

\* C6: for a non-empty melody the result has at most 3 entries, in
\* non-increasing score order, keys of equal score in table order, every key
\* left out ranking behind every key returned; when every key scores 0 the
\* result is the first keys of the table.
C6_TroisMeilleuresStables ==
  (Done("detecter_tonalite") /\ args.liste_notes # <<>>) =>
    LET notes == NotesRetenues(args.liste_notes, args.fenetre)
        r     == result.val
    IN  /\ result.exc = ""
        /\ Len(r) <= 3
        /\ \A i, j \in 1..Len(r) :
             i < j => Devance(r[i], Rang(r[j].tonalite), r[j].score)
        /\ \A k \in 1..Len(Tonalites) :
             (\A i \in 1..Len(r) : r[i].tonalite # Tonalites[k]) =>
               /\ Len(r) = 3
               /\ \A i \in 1..Len(r) :
                    Devance(r[i], k, ScoreAttendu(Tonalites[k], notes))
        /\ (\A k \in 1..Len(Tonalites) : ScoreAttendu(Tonalites[k], notes) = 0) =>
             r = [i \in 1..3 |-> [tonalite |-> Tonalites[i], score |-> 0]]

\* C6 witness: a melody no key scores on returns the first three keys of the
\* table.
C6_Witness ==
  /\ Done("detecter_tonalite")
  /\ args.liste_notes = <<"X", "X">>
  /\ result.val = <<[tonalite |-> "Do Majeur", score |-> 0],
                    [tonalite |-> "Do# Majeur", score |-> 0],
                    [tonalite |-> "Ré Majeur", score |-> 0]>>

\* C7: with a positive window w the result is the result, without a window,
\* on the last min(w, len) notes.
C7_FenetreFinale ==
  (Done("detecter_tonalite") /\ args.fenetre # <<>> /\ args.fenetre[1] > 0) =>
    result = detecter_tonalite(NotesRetenues(args.liste_notes, args.fenetre), <<>>)

\* C7 witness: a window of 2 on 3 notes drops a first note that would have
\* changed the result.
C7_Witness ==
  /\ Done("detecter_tonalite")
  /\ args = [liste_notes |-> <<"G", "Db", "C">>, fenetre |-> <<2>>]
  /\ result = detecter_tonalite(<<"Db", "C">>, <<>>)
  /\ result # detecter_tonalite(<<"G", "Db", "C">>, <<>>)

\* C8: the score of every key is the sum, over the distinct octave-stripped
\* names analysed, of points(degree) times the occurrences, with points 3, 2,
\* 2, 1, 0 for degree 1, 5, 7, another degree, none.
C8_ScoreParDegre ==
  (Done("detecter_tonalite") /\ args.liste_notes # <<>>) =>
    LET notes  == NotesRetenues(args.liste_notes, args.fenetre)
        scores == Scores(NotesAAnalyser(args.liste_notes, args.fenetre))
    IN  /\ \A k \in 1..Len(Tonalites) :
             scores[k] = [tonalite |-> Tonalites[k],
                          score    |-> ScoreAttendu(Tonalites[k], notes)]
        /\ \A i \in 1..Len(result.val) :
             result.val[i].score = ScoreAttendu(result.val[i].tonalite, notes)

\* C8 witness: C4 and C count twice for the name C, Db counts through C#.
C8_Witness ==
  /\ Done("detecter_tonalite")
  /\ args = [liste_notes |-> <<"C4", "C", "Db">>, fenetre |-> <<>>]
  /\ result.val = <<[tonalite |-> "Do Majeur", score |-> 6],
                    [tonalite |-> "Do Mineur", score |-> 6],
                    [tonalite |-> "Fa Mineur", score |-> 5]>>

\* the number of the degree-1, degree-5 and degree-7 notes of key t that the
\* scale of key u holds
Partage(t, u) ==
  Cardinality({d \in {1, 5, 7} : DansLaGamme(GAMMES[t][d], u)})

\* the score detecter_tonalite computes for a key on the notes of the call
ScoreCalcule(tonalite) ==
  Scores(NotesAAnalyser(args.liste_notes, args.fenetre))[Rang(tonalite)].score

Occurrences(notes, nom) == Cardinality({i \in 1..Len(notes) : notes[i] = nom})

\* C9 as stated: any non-empty melody of the degree-1, -5 and -7 notes of K
\* scores strictly higher for K than for every key sharing at most one of them.
C9_Original ==
  (Done("detecter_tonalite") /\ args.liste_notes # <<>>) =>
    \A u \in DOMAIN GAMMES :
      (u # args.tonalite /\ Partage(args.tonalite, u) <= 1) =>
        ScoreCalcule(args.tonalite) > ScoreCalcule(u)

\* C9 amended: a melody in which the degree-1, degree-5 and degree-7 notes of
\* K occur equally often (at least once each, and nothing else) scores
\* strictly higher for K than for every key whose scale holds at most one of
\* the three notes.
C9_TroisDegresEgalementPresents ==
  (/\ Done("detecter_tonalite")
   /\ Occurrences(args.liste_notes, GAMMES[args.tonalite][1]) >= 1
   /\ \A d \in {5, 7} :
        Occurrences(args.liste_notes, GAMMES[args.tonalite][d])
          = Occurrences(args.liste_notes, GAMMES[args.tonalite][1])) =>
    \A u \in DOMAIN GAMMES :
      (u # args.tonalite /\ Partage(args.tonalite, u) <= 1) =>
        ScoreCalcule(args.tonalite) > ScoreCalcule(u)

\* C9 witness: C, G, B score 7 for Do Majeur and 3 for Si Majeur, which
\* holds B alone.
C9_Witness ==
  /\ Done("detecter_tonalite")
  /\ args.tonalite = "Do Majeur"
  /\ args.liste_notes = <<"C", "G", "B">>
  /\ Partage("Do Majeur", "Si Majeur") = 1
  /\ ScoreCalcule("Do Majeur") = 7
  /\ ScoreCalcule("Si Majeur") = 3
  /\ result.val[1] = [tonalite |-> "Do Majeur", score |-> 7]

\* C10 as stated: for every name with a registered partner, applying
\* normaliser_note_enharmonique twice gives the name back.
C10_Original ==
  (/\ Done("normaliser_note_enharmonique")
   /\ args.applications = 2
   /\ args.origine \in DOMAIN equivalences) =>
    result.val = args.origine
(***************************************************************************)
(* HarmonyEngine.suggerer_accords_tonalite: the chords of a melody whose   *)
(* notes each come with a key.  The function runs one note per step; the   *)
(* variable locals holds its local variables between two steps.            *)
(***************************************************************************)
\* the characters of every chord name of the tables
CharsAccords ==
     "C" :> <<"C">>
  @@ "Dm" :> <<"D", "m">>
  @@ "Em" :> <<"E", "m">>
  @@ "F" :> <<"F">>
  @@ "G" :> <<"G">>
  @@ "Am" :> <<"A", "m">>
  @@ "Bdim" :> <<"B", "d", "i", "m">>
  @@ "C#" :> <<"C", "#">>
  @@ "D#m" :> <<"D", "#", "m">>
  @@ "E#m" :> <<"E", "#", "m">>
  @@ "F#" :> <<"F", "#">>
  @@ "G#" :> <<"G", "#">>
  @@ "A#m" :> <<"A", "#", "m">>
  @@ "B#dim" :> <<"B", "#", "d", "i", "m">>
  @@ "D" :> <<"D">>
  @@ "F#m" :> <<"F", "#", "m">>
  @@ "A" :> <<"A">>
  @@ "Bm" :> <<"B", "m">>
  @@ "C#dim" :> <<"C", "#", "d", "i", "m">>
  @@ "D#" :> <<"D", "#">>
  @@ "F##m" :> <<"F", "#", "#", "m">>
  @@ "A#" :> <<"A", "#">>
  @@ "B#m" :> <<"B", "#", "m">>
  @@ "C##dim" :> <<"C", "#", "#", "d", "i", "m">>
  @@ "E" :> <<"E">>
  @@ "G#m" :> <<"G", "#", "m">>
  @@ "B" :> <<"B">>
  @@ "C#m" :> <<"C", "#", "m">>
  @@ "D#dim" :> <<"D", "#", "d", "i", "m">>
  @@ "Gm" :> <<"G", "m">>
  @@ "Bb" :> <<"B", "b">>
  @@ "Edim" :> <<"E", "d", "i", "m">>
  @@ "E#dim" :> <<"E", "#", "d", "i", "m">>
  @@ "F#dim" :> <<"F", "#", "d", "i", "m">>
  @@ "F##dim" :> <<"F", "#", "#", "d", "i", "m">>
  @@ "G#dim" :> <<"G", "#", "d", "i", "m">>
  @@ "C##m" :> <<"C", "#", "#", "m">>
  @@ "E#" :> <<"E", "#">>
  @@ "G##dim" :> <<"G", "#", "#", "d", "i", "m">>
  @@ "A#dim" :> <<"A", "#", "d", "i", "m">>
  @@ "Cm" :> <<"C", "m">>
  @@ "Ddim" :> <<"D", "d", "i", "m">>
  @@ "Eb" :> <<"E", "b">>
  @@ "Fm" :> <<"F", "m">>
  @@ "Ab" :> <<"A", "b">>
  @@ "Gdim" :> <<"G", "d", "i", "m">>
  @@ "Bbm" :> <<"B", "b", "m">>
  @@ "Db" :> <<"D", "b">>
  @@ "Adim" :> <<"A", "d", "i", "m">>
  @@ "Ebm" :> <<"E", "b", "m">>
  @@ "Abm" :> <<"A", "b", "m">>

\* mot in nom, for a word and a name given by their characters
Sous(mot, nom) ==
  \E k \in 1..(Len(nom) - Len(mot) + 1) : SubSeq(nom, k, k + Len(mot) - 1) = mot

\* Qualite as it would be if the test for "m" did not exclude "dim"
Qualite_mAvantDim(accord_nom) ==
  IF Sous(<<"m">>, CharsAccords[accord_nom]) THEN "minor"
  ELSE IF Sous(<<"d", "i", "m">>, CharsAccords[accord_nom]) THEN "diminished"
  ELSE "major"

\* the quality read off a chord's name
Qualite(accord_nom) ==
  IF Sous(<<"m">>, CharsAccords[accord_nom]) /\ ~Sous(<<"d", "i", "m">>, CharsAccords[accord_nom])
  THEN "minor"
  ELSE IF Sous(<<"d", "i", "m">>, CharsAccords[accord_nom]) THEN "diminished"
  ELSE "major"

\* the suggestions formatted as chord options
ChordOptions(top_suggestions) ==
  [k \in 1..Len(top_suggestions) |->
     [name    |-> top_suggestions[k].accord,
      notes   |-> DictGet(CONTENU_ACCORDS, top_suggestions[k].accord, <<>>),
      quality |-> Qualite(top_suggestions[k].accord),
      reason  |-> top_suggestions[k].raison]]

\* AccordSuivant as it would be if a note without a suggestion reset the chord
AccordSuivant_remisANone(accord_precedent, chord_options) ==
  IF chord_options # <<>> THEN chord_options[1].name ELSE None

\* the chord handed to the next note: the first one suggested, when there is one
AccordSuivant(accord_precedent, chord_options) ==
  IF chord_options # <<>> THEN chord_options[1].name ELSE accord_precedent

\* suggestions_par_note = [], accord_precedent = None
LocalsInitiaux == [i |-> 0, accord_precedent |-> None, suggestions_par_note |-> <<>>]

\* the body of the loop for the note of index locs.i (counted from 0)
Iteration(locs, melodie, tonalites_par_note) ==
  LET note == melodie[locs.i + 1]
      tonalite_info == tonalites_par_note[locs.i + 1]
      tonalite_actuelle == tonalite_info.tonalite
      suggestions == suggerer_accords(note, tonalite_actuelle, locs.accord_precedent).val
      chord_options == ChordOptions(Premiers(suggestions, 2))
  IN  [i |-> locs.i + 1,
       accord_precedent |-> AccordSuivant(locs.accord_precedent, chord_options),
       suggestions_par_note |->
         Append(locs.suggestions_par_note,
                [note           |-> note,
                 chord_options  |-> chord_options,
                 detected_key   |-> tonalite_actuelle,
                 key_candidates |-> tonalite_info.tonalites_candidates])]

RECURSIVE Boucle(_, _, _)
\* the local variables after the first n notes
Boucle(melodie, tonalites_par_note, n) ==
  IF n = 0 THEN LocalsInitiaux
  ELSE Iteration(Boucle(melodie, tonalites_par_note, n - 1), melodie, tonalites_par_note)

\* the function run from its first line to its last
suggerer_accords_tonalite(melodie, tonalites_par_note) ==
  Return(Boucle(melodie, tonalites_par_note, Len(melodie)).suggestions_par_note)

\* the number of notes a melody with given keys may have
MaxAccords == 3

NotesAccords == {"C", "B", "E#"}

TonalitesAccords == {"Do Majeur", "La# Majeur", "La Mineur"}

\* a key for each note of the melody, with no candidate
TonalitesParNote(n) ==
  [1..n -> {[note |-> "", tonalite |-> t, tonalites_candidates |-> <<>>] : t \in TonalitesAccords}]

Call_suggerer_accords_tonalite ==
  /\ pc = "idle"
  /\ \E melodie \in Melodies(NotesAccords, MaxAccords) :
       \E tonalites \in TonalitesParNote(Len(melodie)) :
         args' = [melodie |-> melodie,
                  tonalites_par_note |->
                    [k \in 1..Len(melodie) |-> [tonalites[k] EXCEPT !.note = melodie[k]]]]
  /\ op' = "suggerer_accords_tonalite"
  /\ pc' = "called"
  /\ UNCHANGED <<result, hmm, locals>>

Begin_suggerer_accords_tonalite ==
  /\ pc = "called"
  /\ op = "suggerer_accords_tonalite"
  /\ locals' = LocalsInitiaux
  /\ pc' = "loop"
  /\ UNCHANGED <<op, args, result, hmm>>

Loop_suggerer_accords_tonalite ==
  /\ pc = "loop"
  /\ op = "suggerer_accords_tonalite"
  /\ locals.i < Len(args.melodie)
  /\ locals' = Iteration(locals, args.melodie, args.tonalites_par_note)
  /\ UNCHANGED <<pc, op, args, result, hmm>>

Return_suggerer_accords_tonalite ==
  /\ pc = "loop"
  /\ op = "suggerer_accords_tonalite"
  /\ locals.i = Len(args.melodie)
  /\ result' = Return(locals.suggestions_par_note)
  /\ locals' = NoLocals
  /\ pc' = "done"
  /\ UNCHANGED <<op, args, hmm>>

NextAccords ==
  \/ Call_suggerer_accords_tonalite
  \/ Begin_suggerer_accords_tonalite
  \/ Loop_suggerer_accords_tonalite
  \/ Return_suggerer_accords_tonalite
  \/ Respond

SpecAccords == Init /\ [][NextAccords]_vars

(***************************************************************************)
(* Properties of the tables and of suggerer_accords_tonalite (checked      *)
(* under SpecAccords).                                                     *)
(***************************************************************************)
\* the quality the mode gives to the chord of a degree
QualiteDuDegre(majeur, degre) ==
  IF majeur
  THEN (IF degre \in {1, 4, 5} THEN "major" ELSE IF degre \in {2, 3, 6} THEN "minor" ELSE "diminished")
  ELSE (IF degre \in {1, 4, 5} THEN "minor" ELSE IF degre = 2 THEN "diminished" ELSE "major")

\* C11: the key table holds exactly 24 keys, 12 major and 12 minor; every key
\* has a scale of 7 notes and a palette of 7 chords; the quality read off the
\* name of each palette chord is the one its mode gives to its degree (major
\* keys: 1, 4, 5 major, 2, 3, 6 minor, 7 diminished; minor keys: 1, 4, 5
\* minor, 2 diminished, 3, 6, 7 major), in the table and in every chord
\* option that suggerer_accords_tonalite returns.
C11_TableEtQualites ==
  /\ Len(Tonalites) = 24
  /\ {Tonalites[k] : k \in 1..Len(Tonalites)} = DOMAIN GAMMES
  /\ Cardinality(DOMAIN GAMMES) = 24
  /\ DOMAIN PALETTES = DOMAIN GAMMES
  /\ Cardinality({t \in DOMAIN GAMMES : Mots[t][2] = "Majeur"}) = 12
  /\ Cardinality({t \in DOMAIN GAMMES : Mots[t][2] = "Mineur"}) = 12
  /\ \A t \in DOMAIN GAMMES :
       /\ Len(GAMMES[t]) = 7
       /\ Len(PALETTES[t]) = 7
       /\ \A d \in 1..7 :
            Qualite(PALETTES[t][d]) = QualiteDuDegre(Mots[t][2] = "Majeur", d)
  /\ Done("suggerer_accords_tonalite") =>
       \A k \in 1..Len(result.val) : \A j \in 1..Len(result.val[k].chord_options) :
         LET option == result.val[k].chord_options[j]
             tonalite == result.val[k].detected_key
         IN  option.quality = QualiteDuDegre(Mots[tonalite][2] = "Majeur",
                                             ListIndex(PALETTES[tonalite], option.name) + 1)

\* a call returned, for a note in Do Majeur, the diminished chord of degree 7
\* first and a minor chord second
C11_Witness ==
  /\ Done("suggerer_accords_tonalite")
  /\ \E k \in 1..Len(result.val) :
       /\ result.val[k].detected_key = "Do Majeur"
       /\ Len(result.val[k].chord_options) = 2
       /\ result.val[k].chord_options[1].name = PALETTES["Do Majeur"][7]
       /\ result.val[k].chord_options[1].quality = "diminished"
       /\ result.val[k].chord_options[2].quality = "major"

\* C12: every chord option that suggerer_accords_tonalite returns is a chord
\* of the chord-content table and carries exactly 3 notes.
C12_Original ==
  Done("suggerer_accords_tonalite") =>
    \A k \in 1..Len(result.val) : \A j \in 1..Len(result.val[k].chord_options) :
      /\ result.val[k].chord_options[j].name \in DOMAIN CONTENU_ACCORDS
      /\ Len(result.val[k].chord_options[j].notes) = 3

\* the first chord suggested to the latest of the notes that got a suggestion;
\* None when no note got one
DernierAccordSuggere(faits) ==
  LET avec == {k \in 1..Len(faits) : faits[k].chord_options # <<>>}
  IN  IF avec = {} THEN None
      ELSE faits[CHOOSE k \in avec : \A m \in avec : m <= k].chord_options[1].name

\* C20: while suggerer_accords_tonalite runs, the notes done so far are the
\* first notes of the melody, in order; the chord about to be passed to
\* suggerer_accords as the previous chord is None before the first note and
\* otherwise the first suggestion of the latest earlier note that got at
\* least one suggestion (a note without suggestion leaves it as it was); and
\* each note done got the suggestions suggerer_accords gives with that chord.
C20_AccordPrecedentEnfile ==
  (op = "suggerer_accords_tonalite" /\ pc = "loop") =>
    LET faits == locals.suggestions_par_note
    IN  /\ locals.i = Len(faits)
        /\ faits = <<>> => locals.accord_precedent = None
        /\ locals.accord_precedent = DernierAccordSuggere(faits)
        /\ \A k \in 1..Len(faits) :
             /\ faits[k].note = args.melodie[k]
             /\ faits[k].detected_key = args.tonalites_par_note[k].tonalite
             /\ faits[k].chord_options =
                  ChordOptions(Premiers(
                    suggerer_accords(args.melodie[k], args.tonalites_par_note[k].tonalite,
                                     DernierAccordSuggere(SubSeq(faits, 1, k - 1))).val, 2))

\* before the third note: the first note got a suggestion, the second got
\* none, the chord kept is the one of the first note, and it is not a chord
\* of the third note's key
C20_Witness ==
  /\ op = "suggerer_accords_tonalite"
  /\ pc = "loop"
  /\ Len(args.melodie) = 3
  /\ locals.i = 2
  /\ locals.suggestions_par_note[1].chord_options # <<>>
  /\ locals.suggestions_par_note[2].chord_options = <<>>
  /\ locals.accord_precedent = locals.suggestions_par_note[1].chord_options[1].name
  /\ args.tonalites_par_note[3].tonalite # args.tonalites_par_note[1].tonalite
  /\ ~In(locals.accord_precedent, PALETTES[args.tonalites_par_note[3].tonalite])

(***************************************************************************)
(* HiddenMarkovModel.viterbi, step by step: the conversion of the          *)
(* observations and the first row, one row per later observation, then     *)
(* the termination and the backtracking.                                   *)
(***************************************************************************)
MaxObs == 2

\* tokens of the 12 notes (plain, with an octave, by an enharmonic name) and
\* tokens that name none of them
JetonsViterbi == {"C", "G4", "Db", "F##", "4"}

Call_viterbi ==
  /\ pc = "idle"
  /\ \E n \in 0..MaxObs : \E observations \in [1..n -> JetonsViterbi] :
       args' = [observations |-> observations]
  /\ op' = "viterbi"
  /\ pc' = "called"
  /\ UNCHANGED <<result, hmm, locals>>

Begin_viterbi ==
  /\ pc = "called"
  /\ op = "viterbi"
  /\ IF args.observations = <<>>
     THEN /\ result' = Raise("IndexError")
          /\ pc' = "done"
          /\ locals' = NoLocals
     ELSE /\ LET obs_indices == ObsIndices(args.observations)
             IN  locals' = [obs_indices |-> obs_indices, tables |-> Avancer(hmm, obs_indices, 1)]
          /\ pc' = "loop"
          /\ UNCHANGED result
  /\ UNCHANGED <<op, args, hmm>>

Loop_viterbi ==
  /\ pc = "loop"
  /\ op = "viterbi"
  /\ Len(locals.tables.delta) < Len(locals.obs_indices)
  /\ locals' = [locals EXCEPT !.tables =
                  Prolonger(hmm, locals.tables, locals.obs_indices[Len(locals.tables.delta) + 1])]
  /\ UNCHANGED <<pc, op, args, result, hmm>>

Return_viterbi ==
  /\ pc = "loop"
  /\ op = "viterbi"
  /\ Len(locals.tables.delta) = Len(locals.obs_indices)
  /\ result' = Return(Terminaison(locals.tables))
  /\ locals' = NoLocals
  /\ pc' = "done"
  /\ UNCHANGED <<op, args, hmm>>

NextViterbi ==
  \/ Call_viterbi
  \/ Begin_viterbi
  \/ Loop_viterbi
  \/ Return_viterbi
  \/ Respond

SpecViterbi == Init /\ [][NextViterbi]_vars

\* the sum of the numerators of the first n entries of a row
SommeDesNumerateurs(ligne, n) == Somme([k \in 1..n |-> ligne[k].num], n)

\* a row of a matrix: as many entries as weights, each positive, each the
\* weight divided by the total of the weights, and their sum 1
LigneDeProbabilites(ligne, poids) ==
  LET n == Len(poids)
      total == Somme(poids, n)
  IN  /\ Len(ligne) = n
      /\ \A j \in 1..n :
           /\ ligne[j].num > 0 /\ ligne[j].den > 0
           /\ ligne[j].num * total = poids[j] * ligne[j].den
           /\ ligne[j].den = SommeDesNumerateurs(ligne, n)

\* C13: after construction of the HMM, each of the 24 rows of the
\* transition matrix and each of the 24 rows of the emission matrix has
\* only positive entries and sums to 1, each entry being its raw weight
\* divided by the raw total of its row.
C13_LignesDeProbabilites ==
  /\ Len(hmm.transition_matrix) = 24
  /\ Len(hmm.emission_matrix) = 24
  /\ \A i \in 1..24 :
       /\ LigneDeProbabilites(hmm.transition_matrix[i],
                              [j \in 1..Len(Tonalites) |-> PoidsTransition(i, j)])
       /\ LigneDeProbabilites(hmm.emission_matrix[i],
                              [j \in 1..Len(notes_hmm) |-> PoidsEmission(i, j)])

\* the constructed model in use by a decoding: staying in Do Majeur weighs
\* 0.90 of 1.0722, moving to Sol Majeur 0.03, and C in Do Majeur 0.25 of 1.05
C13_Witness ==
  /\ Done("viterbi")
  /\ result.exc = ""
  /\ hmm.transition_matrix[1][1] = Frac(9000, 10722)
  /\ hmm.transition_matrix[1][8] = Frac(300, 10722)
  /\ hmm.emission_matrix[1][1] = Frac(25, 105)
  /\ hmm.emission_matrix[1][2] = Frac(1, 105)

RECURSIVE PlusGrandeEntre(_, _, _)
\* the greatest of probs[premier..dernier]
PlusGrandeEntre(probs, premier, dernier) ==
  IF premier = dernier THEN probs[premier]
  ELSE LET milieu == (premier + dernier) \div 2
           gauche == PlusGrandeEntre(probs, premier, milieu)
           droite == PlusGrandeEntre(probs, milieu + 1, dernier)
       IN  IF ProbLess(gauche, droite) THEN droite ELSE gauche

RECURSIVE MeilleureSuite(_, _, _, _, _)
\* the greatest joint probability among all the key sequences that begin
\* with a given sequence of t keys, which ends in key s and has joint
\* probability p
MeilleureSuite(model, obs_indices, t, s, p) ==
  IF t = Len(obs_indices) THEN p
  ELSE LET suites ==
             Liste([s2 \in 1..Len(Tonalites) |->
                      MeilleureSuite(model, obs_indices, t + 1, s2,
                                     ProbMul(ProbMul(p, model.transition_matrix[s][s2]),
                                             model.emission_matrix[s2][obs_indices[t + 1]]))],
                   Len(Tonalites))
       IN  PlusGrandeEntre(suites, 1, Len(Tonalites))

\* the greatest joint probability among all the 24^T key sequences
MaxConjointe(model, obs_indices) ==
  LET debuts ==
        Liste([s \in 1..Len(Tonalites) |->
                 MeilleureSuite(model, obs_indices, 1, s,
                                ProbMul(ProbOfFrac(model.initial_probabilities[s]),
                                        model.emission_matrix[s][obs_indices[1]]))],
              Len(Tonalites))
  IN  PlusGrandeEntre(debuts, 1, Len(Tonalites))

RECURSIVE Conjointe(_, _, _, _)
\* the joint probability of the first t keys of a path and the first t
\* observations
Conjointe(model, obs_indices, path, t) ==
  IF t = 1
  THEN ProbMul(ProbOfFrac(model.initial_probabilities[Rang(path[1])]),
               model.emission_matrix[Rang(path[1])][obs_indices[1]])
  ELSE ProbMul(ProbMul(Conjointe(model, obs_indices, path, t - 1),
                       model.transition_matrix[Rang(path[t - 1])][Rang(path[t])]),
               model.emission_matrix[Rang(path[t])][obs_indices[t]])

\* C14: for every non-empty observation sequence of length T, viterbi
\* returns a path of T keys whose joint probability is the maximum over all
\* 24^T key sequences, and the probability it reports for the last note
\* equals that maximum.
C14_CheminLePlusProbable ==
  (Done("viterbi") /\ args.observations # <<>>) =>
    /\ result.exc = ""
    /\ LET T == Len(args.observations)
           obs_indices == ObsIndices(args.observations)
           path == result.val.path
           max == MaxConjointe(hmm, obs_indices)
       IN  /\ Len(path) = T
           /\ \A t \in 1..T : \E k \in 1..Len(Tonalites) : Tonalites[k] = path[t]
           /\ ProbEq(Conjointe(hmm, obs_indices, path, T), max)
           /\ Len(result.val.probabilities) = T
           /\ ProbEq(result.val.probabilities[T], max)

\* a decoding of two notes: G then D flat (C sharp) is best read as
\* Ré Majeur twice, among the 576 readings
C14_Witness ==
  /\ Done("viterbi")
  /\ args.observations = <<"G4", "Db">>
  /\ result.exc = ""
  /\ result.val.path = <<"Ré Majeur", "Ré Majeur">>

\* a token that resolves to none of the 12 notes, neither by its name
\* without the octave nor by the enharmonic equivalent of that name
Inconnu(jeton) ==
  LET obs_norm == normaliser_note(jeton)
  IN  /\ ~In(obs_norm, notes_hmm)
      /\ ~In(normaliser_note_enharmonique(obs_norm), notes_hmm)

\* C15: for every non-empty observation sequence, viterbi does not fail on
\* a token that resolves to none of the 12 notes: it returns the path and
\* the probabilities it returns when each such token is replaced by C.
C15_JetonInconnuCommeDo ==
  (Done("viterbi") /\ args.observations # <<>>) =>
    /\ result.exc = ""
    /\ result = viterbi(hmm, [t \in 1..Len(args.observations) |->
                                IF Inconnu(args.observations[t]) THEN "C"
                                ELSE args.observations[t]])

\* a decoding of a double sharp, which the enharmonic table does not know,
\* followed by a G
C15_Witness ==
  /\ Done("viterbi")
  /\ args.observations = <<"F##", "G4">>
  /\ Inconnu("F##")
  /\ ~Inconnu("G4")
  /\ result = viterbi(hmm, <<"C", "G4">>)
  /\ result.exc = ""

(***************************************************************************)
(* viterbi on the melodies of test_hmm.py, as they grow note by note.      *)
(***************************************************************************)
melodie_modulation == <<"C4", "E4", "G4", "C5", "D4", "F#4", "A4", "D5">>

\* melodie_c_major, melodie_a_minor, melodie_modulation, melodie_longue
MelodiesDeTest ==
  {<<"C4", "D4", "E4", "F4", "G4", "A4", "B4", "C5">>,
   <<"A3", "B3", "C4", "D4", "E4", "F4", "G4", "A4">>,
   melodie_modulation,
   <<"C4", "E4", "G4", "C5", "D4", "F#4", "A4", "D5", "B4", "D5", "G5">>}

Call_viterbi_test ==
  /\ pc = "idle"
  /\ \E melodie \in MelodiesDeTest : \E i \in 1..Len(melodie) :
       args' = [observations |-> SubSeq(melodie, 1, i)]
  /\ op' = "viterbi"
  /\ pc' = "called"
  /\ UNCHANGED <<result, hmm, locals>>

NextModulation ==
  \/ Call_viterbi_test
  \/ Begin_viterbi
  \/ Loop_viterbi
  \/ Return_viterbi
  \/ Respond

SpecModulation == Init /\ [][NextModulation]_vars

\* a key whose scale holds every one of the given tokens
Compatible(tonalite, jetons) ==
  \A t \in 1..Len(jetons) : get_degree_of_note(jetons[t], tonalite) # 0

\* C17: viterbi on C4 E4 G4 C5 D4 F#4 A4 D5 returns a path that changes
\* key: each key decoded for the first half is consistent with the notes of
\* Do Majeur played there (its scale holds them), each key decoded for the
\* second half is consistent with the notes of Sol Majeur played there, and
\* the path is not a single constant key.
C17_Original ==
  (Done("viterbi") /\ args.observations = melodie_modulation) =>
    /\ result.exc = ""
    /\ \A t \in 1..4 : Compatible(result.val.path[t], SubSeq(melodie_modulation, 1, 4))
    /\ \A t \in 5..8 : Compatible(result.val.path[t], SubSeq(melodie_modulation, 5, 8))
    /\ \E t \in 1..8 : \E u \in 1..8 : result.val.path[t] # result.val.path[u]

(***************************************************************************)
(* The entry points of the engine that decode a melody with the HMM:       *)
(* detecter_tonalite_hmm, detecter_tonalite_sequence,                      *)
(* detecter_tonalite_melodie and suggerer_accords_pour_melodie.  Each runs *)
(* from its call to the point where it invokes viterbi (pc = "viterbi",    *)
(* the observations handed over in locals) or returns without invoking it, *)
(* and from the decoding to its return.  np.log of a positive probability  *)
(* p is the value [log |-> p]; a probability is never 0 in exact           *)
(* arithmetic, the underflow of a long product is not modelled.            *)
(***************************************************************************)
\* float(np.log(prob)) if prob > 0 else float(-np.inf)
LogProb(prob) == IF prob.num # <<>> THEN [log |-> prob] ELSE "-inf"

\* TopTonalites as it would be if keys of equal count came in table order
TopTonalites_ordreDeLaTable(path) ==
  LET presentes == SelectSeq(Tonalites, LAMBDA t : In(t, path))
      compte == Counter(path)
  IN  Premiers(TrierParScore([k \in 1..Len(presentes) |->
                                [tonalite |-> presentes[k],
                                 score    |-> compte.compte[ListIndex(compte.ordre, presentes[k]) + 1]]]),
               3)

\* Counter(path).most_common(3) as a list of {"tonalite", "score": count}:
\* a stable descending sort of the counts, the keys taken in the order of
\* their first occurrence in the path
TopTonalites(path) ==
  LET tonalite_counts == Counter(path)
  IN  Premiers(TrierParScore([k \in 1..Len(tonalite_counts.ordre) |->
                                [tonalite |-> tonalite_counts.ordre[k],
                                 score    |-> tonalite_counts.compte[k]]]),
               3)

\* detecter_tonalite_hmm after the decoding
ResultatHMM(fenetre, decodage) ==
  IF fenetre # <<>>
  THEN <<[tonalite |-> decodage.path[Len(decodage.path)],
          score    |-> LogProb(decodage.probabilities[Len(decodage.probabilities)])]>>
  ELSE TopTonalites(decodage.path)

\* detecter_tonalite_sequence after the decoding
ResultatSequence(liste_notes, decodage) ==
  [i \in 1..Len(liste_notes) |->
     [note            |-> liste_notes[i],
      tonalite        |-> decodage.path[i],
      log_probabilite |-> LogProb(decodage.probabilities[i])]]

\* TonaliteActuelle as it would be if the key of the user were not looked at
TonaliteActuelle_detectee(tonalite_choisie, tonalite) == tonalite

\* the key of the user when there is one, else the one detected
TonaliteActuelle(tonalite_choisie, tonalite) ==
  IF Truthy(tonalite_choisie) THEN tonalite_choisie ELSE tonalite

\* tonalites_par_note built from the path of Viterbi
ParNoteHMM(melodie, tonalite_choisie, decodage) ==
  [i \in 1..Len(melodie) |->
     [note                 |-> melodie[i],
      tonalite             |-> TonaliteActuelle(tonalite_choisie, decodage.path[i]),
      tonalites_candidates |-> <<[tonalite |-> decodage.path[i],
                                  score    |-> LogProb(decodage.probabilities[i])]>>]]

\* ParNoteScoring as it would be if every note were given the keys of the
\* last notes of the whole melody, melodie[-fenetre:]
ParNoteScoring_melodieEntiere(melodie, tonalite_choisie, fenetre_tonalite, tonalites_globales) ==
  [i \in 1..Len(melodie) |->
     LET tonalites_locales == detecter_tonalite(melodie, <<fenetre_tonalite>>).val
     IN  [note                 |-> melodie[i],
          tonalite             |->
            TonaliteActuelle(tonalite_choisie,
                             IF tonalites_locales # <<>> THEN tonalites_locales[1].tonalite
                             ELSE "Do Majeur"),
          tonalites_candidates |-> Premiers(tonalites_locales, 3)]]

\* tonalites_par_note built by the scoring detector over a sliding window
ParNoteScoring(melodie, tonalite_choisie, fenetre_tonalite, tonalites_globales) ==
  [i \in 1..Len(melodie) |->
     LET tonalites_locales == detecter_tonalite(SubSeq(melodie, 1, i), <<fenetre_tonalite>>).val
     IN  [note                 |-> melodie[i],
          tonalite             |->
            TonaliteActuelle(tonalite_choisie,
                             IF tonalites_locales # <<>> THEN tonalites_locales[1].tonalite
                             ELSE IF tonalites_globales # <<>> THEN tonalites_globales[1].tonalite
                             ELSE "Do Majeur"),
          tonalites_candidates |-> Premiers(tonalites_locales, 3)]]

\* what detecter_tonalite_melodie returns for an empty melody
MelodieVide ==
  [tonalites_globales |-> <<>>, tonalites_par_note |-> <<>>, tonalite_choisie |-> "Do Majeur"]

\* detecter_tonalite_melodie for a melody that is not empty; decodage is the
\* path and the probabilities of Viterbi, read only when algorithm is "hmm"
ResultatMelodie(melodie, tonalite_choisie, fenetre_tonalite, algorithm, decodage) ==
  LET tonalites_globales ==
        IF algorithm = "hmm" THEN TopTonalites(decodage.path)
        ELSE detecter_tonalite(melodie, <<>>).val
      tonalites_par_note ==
        IF algorithm = "hmm" THEN ParNoteHMM(melodie, tonalite_choisie, decodage)
        ELSE ParNoteScoring(melodie, tonalite_choisie, fenetre_tonalite, tonalites_globales)
  IN  [tonalites_globales |-> tonalites_globales,
       tonalites_par_note |-> tonalites_par_note,
       tonalite_choisie   |->
         TonaliteActuelle(tonalite_choisie,
                          IF tonalites_globales # <<>> THEN tonalites_globales[1].tonalite
                          ELSE "Do Majeur")]

\* suggerer_accords_pour_melodie after the detection of the keys
ResultatPourMelodie(melodie, tonalites_result) ==
  [detected_keys |-> tonalites_result.tonalites_globales,
   chosen_key    |-> tonalites_result.tonalite_choisie,
   suggestions   |-> suggerer_accords_tonalite(melodie, tonalites_result.tonalites_par_note).val]

\* the number of notes of the melodies made of every arrangement of tokens
MaxMelodie == 2

\* the melodies analysed: every arrangement of a note and an unknown token,
\* and two melodies of four notes that change key, as they grow
MelodiesAnalysees ==
  Melodies({"F#4", "X"}, MaxMelodie)
    \cup {SubSeq(m, 1, i) : m \in {<<"C", "A#", "D", "F#">>, <<"C#", "A#", "C", "E">>}, i \in 1..4}

\* no key, an empty name, a key of the table, a name that is not in it
TonalitesChoisies == {None, "", "Ré Majeur", "Ut Majeur"}

\* the window of the scoring detector: the default and a shorter one
FenetresTonalite == {2, 6}

\* the melody, the key of the user, the window (read by the scoring
\* algorithm only) and the algorithm
ArgsMelodie ==
  {[melodie |-> m, tonalite_choisie |-> c, fenetre_tonalite |-> f, algorithm |-> a] :
     m \in MelodiesAnalysees, c \in TonalitesChoisies, f \in FenetresTonalite,
     a \in {"scoring"}}
  \cup {[melodie |-> m, tonalite_choisie |-> c, fenetre_tonalite |-> 6, algorithm |-> "hmm"] :
          m \in MelodiesAnalysees, c \in TonalitesChoisies}

Call_detecter_tonalite_hmm ==
  /\ pc = "idle"
  /\ \E melodie \in MelodiesAnalysees, fenetre \in {<<>>, <<-1>>, <<0>>, <<2>>} :
       args' = [liste_notes |-> melodie, fenetre |-> fenetre]
  /\ op' = "detecter_tonalite_hmm"
  /\ pc' = "called"
  /\ UNCHANGED <<result, hmm, locals>>

Begin_detecter_tonalite_hmm ==
  /\ pc = "called"
  /\ op = "detecter_tonalite_hmm"
  /\ IF args.liste_notes = <<>>
     THEN /\ result' = Return(<<>>)
          /\ pc' = "done"
          /\ UNCHANGED locals
     ELSE /\ locals' = [observations |-> NotesAAnalyser(args.liste_notes, args.fenetre)]
          /\ pc' = "viterbi"
          /\ UNCHANGED result
  /\ UNCHANGED <<op, args, hmm>>

Return_detecter_tonalite_hmm ==
  /\ pc = "viterbi"
  /\ op = "detecter_tonalite_hmm"
  /\ LET decodage == viterbi(hmm, locals.observations)
     IN  result' = IF decodage.exc # "" THEN decodage
                   ELSE Return(ResultatHMM(args.fenetre, decodage.val))
  /\ locals' = NoLocals
  /\ pc' = "done"
  /\ UNCHANGED <<op, args, hmm>>

Call_detecter_tonalite_sequence ==
  /\ pc = "idle"
  /\ \E melodie \in MelodiesAnalysees : args' = [liste_notes |-> melodie]
  /\ op' = "detecter_tonalite_sequence"
  /\ pc' = "called"
  /\ UNCHANGED <<result, hmm, locals>>

Begin_detecter_tonalite_sequence ==
  /\ pc = "called"
  /\ op = "detecter_tonalite_sequence"
  /\ IF args.liste_notes = <<>>
     THEN /\ result' = Return(<<>>)
          /\ pc' = "done"
          /\ UNCHANGED locals
     ELSE /\ locals' = [observations |-> args.liste_notes]
          /\ pc' = "viterbi"
          /\ UNCHANGED result
  /\ UNCHANGED <<op, args, hmm>>

Return_detecter_tonalite_sequence ==
  /\ pc = "viterbi"
  /\ op = "detecter_tonalite_sequence"
  /\ LET decodage == viterbi(hmm, locals.observations)
     IN  result' = IF decodage.exc # "" THEN decodage
                   ELSE Return(ResultatSequence(args.liste_notes, decodage.val))
  /\ locals' = NoLocals
  /\ pc' = "done"
  /\ UNCHANGED <<op, args, hmm>>

Call_detecter_tonalite_melodie ==
  /\ pc = "idle"
  /\ \E a \in ArgsMelodie : args' = a
  /\ op' = "detecter_tonalite_melodie"
  /\ pc' = "called"
  /\ UNCHANGED <<result, hmm, locals>>

\* Begin_detecter_tonalite_melodie as it would be without the test of the
\* empty melody
Begin_detecter_tonalite_melodie_sansGarde ==
  /\ pc = "called"
  /\ op = "detecter_tonalite_melodie"
  /\ IF args.algorithm = "hmm"
     THEN /\ locals' = [observations |-> args.melodie]
          /\ pc' = "viterbi"
          /\ UNCHANGED result
     ELSE /\ result' = Return(ResultatMelodie(args.melodie, args.tonalite_choisie,
                                              args.fenetre_tonalite, args.algorithm, None))
          /\ pc' = "done"
          /\ UNCHANGED locals
  /\ UNCHANGED <<op, args, hmm>>

Begin_detecter_tonalite_melodie ==
  /\ pc = "called"
  /\ op = "detecter_tonalite_melodie"
  /\ IF args.melodie = <<>>
     THEN /\ result' = Return(MelodieVide)
          /\ pc' = "done"
          /\ UNCHANGED locals
     ELSE IF args.algorithm = "hmm"
     THEN /\ locals' = [observations |-> args.melodie]
          /\ pc' = "viterbi"
          /\ UNCHANGED result
     ELSE /\ result' = Return(ResultatMelodie(args.melodie, args.tonalite_choisie,
                                              args.fenetre_tonalite, args.algorithm, None))
          /\ pc' = "done"
          /\ UNCHANGED locals
  /\ UNCHANGED <<op, args, hmm>>

Return_detecter_tonalite_melodie ==
  /\ pc = "viterbi"
  /\ op = "detecter_tonalite_melodie"
  /\ LET decodage == viterbi(hmm, locals.observations)
     IN  result' = IF decodage.exc # "" THEN decodage
                   ELSE Return(ResultatMelodie(args.melodie, args.tonalite_choisie,
                                               args.fenetre_tonalite, args.algorithm,
                                               decodage.val))
  /\ locals' = NoLocals
  /\ pc' = "done"
  /\ UNCHANGED <<op, args, hmm>>

Call_suggerer_accords_pour_melodie ==
  /\ pc = "idle"
  /\ \E a \in ArgsMelodie : args' = a
  /\ op' = "suggerer_accords_pour_melodie"
  /\ pc' = "called"
  /\ UNCHANGED <<result, hmm, locals>>

\* the call of detecter_tonalite_melodie, up to its invocation of viterbi;
\* when it returns without one, the chords are suggested at once
Begin_suggerer_accords_pour_melodie ==
  /\ pc = "called"
  /\ op = "suggerer_accords_pour_melodie"
  /\ IF args.melodie = <<>>
     THEN /\ result' = Return(ResultatPourMelodie(args.melodie, MelodieVide))
          /\ pc' = "done"
          /\ UNCHANGED locals
     ELSE IF args.algorithm = "hmm"
     THEN /\ locals' = [observations |-> args.melodie]
          /\ pc' = "viterbi"
          /\ UNCHANGED result
     ELSE /\ result' = Return(ResultatPourMelodie(
                                args.melodie,
                                ResultatMelodie(args.melodie, args.tonalite_choisie,
                                                args.fenetre_tonalite, args.algorithm, None)))
          /\ pc' = "done"
          /\ UNCHANGED locals
  /\ UNCHANGED <<op, args, hmm>>

Return_suggerer_accords_pour_melodie ==
  /\ pc = "viterbi"
  /\ op = "suggerer_accords_pour_melodie"
  /\ LET decodage == viterbi(hmm, locals.observations)
     IN  result' = IF decodage.exc # "" THEN decodage
                   ELSE Return(ResultatPourMelodie(
                                 args.melodie,
                                 ResultatMelodie(args.melodie, args.tonalite_choisie,
                                                 args.fenetre_tonalite, args.algorithm,
                                                 decodage.val)))
  /\ locals' = NoLocals
  /\ pc' = "done"
  /\ UNCHANGED <<op, args, hmm>>

NextMelodie ==
  \/ Call_detecter_tonalite_hmm
  \/ Begin_detecter_tonalite_hmm
  \/ Return_detecter_tonalite_hmm
  \/ Call_detecter_tonalite_sequence
  \/ Begin_detecter_tonalite_sequence
  \/ Return_detecter_tonalite_sequence
  \/ Call_detecter_tonalite_melodie
  \/ Begin_detecter_tonalite_melodie
  \/ Return_detecter_tonalite_melodie
  \/ Call_suggerer_accords_pour_melodie
  \/ Begin_suggerer_accords_pour_melodie
  \/ Return_suggerer_accords_pour_melodie
  \/ Respond

SpecMelodie == Init /\ [][NextMelodie]_vars

(***************************************************************************)
(* Properties of the entry points that decode a melody (checked under      *)
(* SpecMelodie).                                                           *)
(***************************************************************************)
\* a call in HMM mode that has returned the global candidate keys of a melody
ModeHMM ==
  /\ pc = "done"
  /\ \/ op = "detecter_tonalite_hmm" /\ args.fenetre = <<>> /\ args.liste_notes # <<>>
     \/ /\ op \in {"detecter_tonalite_melodie", "suggerer_accords_pour_melodie"}
        /\ args.algorithm = "hmm"
        /\ args.melodie # <<>>

\* the melody of such a call and the global candidate keys it returned
MelodieDecodee == IF op = "detecter_tonalite_hmm" THEN args.liste_notes ELSE args.melodie

CandidatesGlobales ==
  IF op = "detecter_tonalite_hmm" THEN result.val
  ELSE IF op = "detecter_tonalite_melodie" THEN result.val.tonalites_globales
  ELSE result.val.detected_keys

\* the number of notes of the path decoded as a key
Compte(path, tonalite) == Cardinality({t \in 1..Len(path) : path[t] = tonalite})

\* g lists the at most 3 keys that occur most often in the path, each with
\* its count, in non-increasing order of count, and keys of equal count are
\* ordered by the position given to each key
PlusFrequentes(g, path, position) ==
  LET cles == {path[t] : t \in 1..Len(path)}
      listees == {g[k].tonalite : k \in 1..Len(g)}
  IN  /\ Len(g) = (IF Cardinality(cles) < 3 THEN Cardinality(cles) ELSE 3)
      /\ Cardinality(listees) = Len(g)
      /\ \A k \in 1..Len(g) : g[k].tonalite \in cles /\ g[k].score = Compte(path, g[k].tonalite)
      /\ \A k \in 1..(Len(g) - 1) :
           \/ g[k].score > g[k + 1].score
           \/ g[k].score = g[k + 1].score /\ position[g[k].tonalite] < position[g[k + 1].tonalite]
      /\ \A c \in cles \ listees :
           \/ Compte(path, c) < g[Len(g)].score
           \/ Compte(path, c) = g[Len(g)].score /\ position[g[Len(g)].tonalite] < position[c]

\* C16 as stated: in HMM mode the global candidate keys are the at most 3
\* keys that occur most often in the decoded path, in non-increasing order
\* of count, and keys with equal counts are ordered by their position in
\* the 24-key table.
C16_Original ==
  ModeHMM =>
    /\ result.exc = ""
    /\ LET path == viterbi(hmm, MelodieDecodee).val.path
       IN  PlusFrequentes(CandidatesGlobales, path,
                          [c \in {path[t] : t \in 1..Len(path)} |-> Rang(c)])

\* C16, amended: in HMM mode the global candidate keys are the at most 3
\* keys that occur most often in the decoded path, in non-increasing order
\* of count, and keys with equal counts are ordered by their first
\* occurrence in the decoded path.
C16_EgalitesParPremiereOccurrence ==
  ModeHMM =>
    /\ result.exc = ""
    /\ LET path == viterbi(hmm, MelodieDecodee).val.path
       IN  PlusFrequentes(CandidatesGlobales, path,
                          [c \in {path[t] : t \in 1..Len(path)} |-> ListIndex(path, c)])

\* C, A#, D, F# is decoded as Do Mineur twice, then Sol Majeur twice: the
\* two keys have the same count, and Do Mineur, met first in the path and
\* later in the table, is listed first
C16_Witness ==
  /\ Done("detecter_tonalite_melodie")
  /\ args.algorithm = "hmm"
  /\ args.melodie = <<"C", "A#", "D", "F#">>
  /\ result.exc = ""
  /\ result.val.tonalites_globales =
       <<[tonalite |-> "Do Mineur", score |-> 2], [tonalite |-> "Sol Majeur", score |-> 2]>>
  /\ Rang("Sol Majeur") < Rang("Do Mineur")

\* C18: for an empty melody, suggerer_accords_pour_melodie returns without
\* error, for either algorithm and any optional chosen key, an empty list of
\* global candidate keys, an empty list of suggestions and the default
\* chosen key "Do Majeur"; no entry point of the engine invokes the Viterbi
\* decoder on an empty sequence, and none ends with the error of that.
C18_MelodieVide ==
  /\ (Done("suggerer_accords_pour_melodie") /\ args.melodie = <<>>) =>
       result = Return([detected_keys |-> <<>>, chosen_key |-> "Do Majeur", suggestions |-> <<>>])
  /\ pc = "viterbi" => locals.observations # <<>>
  /\ pc = "done" => result.exc = ""

\* an empty melody analysed by the HMM algorithm with a key chosen by the
\* user: the key returned is the default, not the one chosen
C18_Witness ==
  /\ Done("suggerer_accords_pour_melodie")
  /\ args.melodie = <<>>
  /\ args.algorithm = "hmm"
  /\ args.tonalite_choisie = "Ré Majeur"
  /\ result.exc = ""
  /\ result.val.chosen_key = "Do Majeur"
  /\ result.val.detected_keys = <<>>
  /\ result.val.suggestions = <<>>

\* the key candidates of note i as detection finds them: in HMM mode the
\* key decoded by Viterbi for the note with its log-probability, in scoring
\* mode the three best keys of the scoring detector over the window that
\* ends with the note
CandidatesDetectees(melodie, fenetre_tonalite, algorithm, i) ==
  IF algorithm = "hmm"
  THEN LET decodage == viterbi(hmm, melodie).val
       IN  <<[tonalite |-> decodage.path[i], score |-> LogProb(decodage.probabilities[i])]>>
  ELSE Premiers(detecter_tonalite(SubSeq(melodie, 1, i), <<fenetre_tonalite>>).val, 3)

\* C19: for a non-empty melody with a chosen key supplied, under either
\* algorithm, the detected key of every note and the returned chosen key
\* equal the supplied key, while the key candidates of each note report
\* what detection found (in HMM mode the key decoded by Viterbi for that
\* note with its log-probability), the same as with no key supplied.
C19_TonaliteChoisieImposee ==
  (/\ pc = "done"
   /\ op \in {"detecter_tonalite_melodie", "suggerer_accords_pour_melodie"}
   /\ args.melodie # <<>>
   /\ Truthy(args.tonalite_choisie)) =>
    /\ result.exc = ""
    /\ LET n == Len(args.melodie)
           sans == ResultatMelodie(args.melodie, None, args.fenetre_tonalite, args.algorithm,
                                   viterbi(hmm, args.melodie).val)
           par_note == IF op = "detecter_tonalite_melodie" THEN result.val.tonalites_par_note
                       ELSE [i \in 1..Len(result.val.suggestions) |->
                               [tonalite |-> result.val.suggestions[i].detected_key,
                                tonalites_candidates |-> result.val.suggestions[i].key_candidates]]
           choisie == IF op = "detecter_tonalite_melodie" THEN result.val.tonalite_choisie
                      ELSE result.val.chosen_key
       IN  /\ choisie = args.tonalite_choisie
           /\ Len(par_note) = n
           /\ \A i \in 1..n :
                /\ par_note[i].tonalite = args.tonalite_choisie
                /\ par_note[i].tonalites_candidates =
                     CandidatesDetectees(args.melodie, args.fenetre_tonalite, args.algorithm, i)
                /\ par_note[i].tonalites_candidates = sans.tonalites_par_note[i].tonalites_candidates

\* C, A#, D, F# analysed by the HMM algorithm in the key Ré Majeur chosen by
\* the user: the first note is given the key Ré Majeur and the candidate
\* Do Mineur that Viterbi decoded
C19_Witness ==
  /\ Done("suggerer_accords_pour_melodie")
  /\ args.algorithm = "hmm"
  /\ args.melodie = <<"C", "A#", "D", "F#">>
  /\ args.tonalite_choisie = "Ré Majeur"
  /\ result.exc = ""
  /\ result.val.chosen_key = "Ré Majeur"
  /\ result.val.suggestions[1].detected_key = "Ré Majeur"
  /\ result.val.suggestions[1].key_candidates[1].tonalite = "Do Mineur"
  /\ result.val.suggestions[4].key_candidates[1].tonalite = "Sol Majeur"

\* a name of the 24-key table
DansLaTable(tonalite) == \E k \in 1..Len(Tonalites) : Tonalites[k] = tonalite

\* C21: for every input (any melody, any optional key name, either
\* algorithm), every key name in the output of
\* suggerer_accords_pour_melodie, that is the chosen key, the detected key
\* of each note and every candidate key, is one of the 24 keys of the table.
C21_Original ==
  Done("suggerer_accords_pour_melodie") =>
    /\ result.exc = ""
    /\ DansLaTable(result.val.chosen_key)
    /\ \A k \in 1..Len(result.val.detected_keys) :
         DansLaTable(result.val.detected_keys[k].tonalite)
    /\ \A i \in 1..Len(result.val.suggestions) :
         /\ DansLaTable(result.val.suggestions[i].detected_key)
         /\ \A k \in 1..Len(result.val.suggestions[i].key_candidates) :
              DansLaTable(result.val.suggestions[i].key_candidates[k].tonalite)

\* C22: for every non-empty melody, detecter_tonalite_sequence returns one
\* record per input note, in input order, each carrying the input note
\* under 'note', the decoded key under 'tonalite' and the probability of
\* the path under the field 'probabilite', which the test script reads.
C22_Original ==
  (Done("detecter_tonalite_sequence") /\ args.liste_notes # <<>>) =>
    /\ result.exc = ""
    /\ Len(result.val) = Len(args.liste_notes)
    /\ LET decodage == viterbi(hmm, args.liste_notes).val
       IN  \A i \in 1..Len(args.liste_notes) :
             /\ result.val[i].note = args.liste_notes[i]
             /\ result.val[i].tonalite = decodage.path[i]
             /\ "probabilite" \in DOMAIN result.val[i]
             /\ result.val[i].probabilite = decodage.probabilities[i]


\* the observation pitch classes whose emission weight in key i is the
\* weight of scale degree d (0: of a note outside the scale)
ObservationsDuDegre(i, d) ==
  {j \in 1..Len(notes_hmm) :
     DegreDansGamme(normaliser_note(notes_hmm[j]), GAMMES[Tonalites[i]]) = d}

\* C25: when the emission matrix is built, for every one of the 24 keys
\* exactly 7 of the 12 observation pitch classes are matched to the key's
\* scale (directly or through the enharmonic lookup), one for each scale
\* degree 1..7, and the other 5 get the off-scale weight 0.01.
C25_Original ==
  \A i \in 1..Len(Tonalites) :
    /\ \A d \in 1..7 : Cardinality(ObservationsDuDegre(i, d)) = 1
    /\ Cardinality(ObservationsDuDegre(i, 0)) = 5
    /\ \A j \in 1..Len(notes_hmm) :
         (hmm.emission_matrix[i][j].num = 1) <=> (j \in ObservationsDuDegre(i, 0))

\* a list of suggestions for a note of the scale: it holds the chord of the
\* note's degree
SuggestionsEnGamme(suggestions) ==
  \E i \in 1..Len(suggestions) : suggestions[i].priorite = 1

\* C26: scale membership does not depend on spelling: for every key and
\* every note x with a registered enharmonic partner
\* y = normaliser_note_enharmonique(x), _get_degree_of_note gives x and y the
\* same scale degree in that key (or none for both), so suggerer_accords
\* treats both spellings alike as in-scale or off-scale.
C26_Original ==
  (/\ Done("suggerer_accords")
   /\ args.tonalite_choisie \in DOMAIN GAMMES
   /\ normaliser_note(args.note_actuelle) \in DOMAIN equivalences) =>
    LET x == normaliser_note(args.note_actuelle)
        y == normaliser_note_enharmonique(x)
        pour_y == suggerer_accords(y, args.tonalite_choisie, args.accord_precedent)
    IN  /\ get_degree_of_note(x, args.tonalite_choisie)
             = get_degree_of_note(y, args.tonalite_choisie)
        /\ result.exc = "" /\ pour_y.exc = ""
        /\ SuggestionsEnGamme(result.val) <=> SuggestionsEnGamme(pour_y.val)


\* the detected key and the key candidates of every note, as the two
\* functions that analyse a melody report them
ClesParNote ==
  IF op = "detecter_tonalite_melodie"
  THEN [i \in 1..Len(result.val.tonalites_par_note) |->
          [tonalite  |-> result.val.tonalites_par_note[i].tonalite,
           candidates |-> result.val.tonalites_par_note[i].tonalites_candidates]]
  ELSE [i \in 1..Len(result.val.suggestions) |->
          [tonalite  |-> result.val.suggestions[i].detected_key,
           candidates |-> result.val.suggestions[i].key_candidates]]

\* the scoring algorithm has analysed a melody that is not empty, without a
\* key of the user and with a positive window
ScoringSansTonaliteChoisie ==
  /\ pc = "done"
  /\ op \in {"detecter_tonalite_melodie", "suggerer_accords_pour_melodie"}
  /\ args.algorithm # "hmm"
  /\ ~Truthy(args.tonalite_choisie)
  /\ args.fenetre_tonalite > 0
  /\ args.melodie # <<>>

\* the notes at positions max(1, i - w + 1) .. i of the melody
FenetreDeLaNote(melodie, w, i) ==
  SubSeq(melodie, IF i - w + 1 > 1 THEN i - w + 1 ELSE 1, i)

\* C24: in scoring mode with no chosen key and a positive window w, the
\* detected key of note i is the top result of detecter_tonalite over the
\* notes at positions max(0, i-w+1) .. i only (counted from 0); so the notes
\* that follow never change the detected key or the key candidates of a
\* note, local detection always yields a candidate, and the fallbacks to the
\* result for the whole melody and to the default key are never taken.
C24_FenetreGlissante ==
  ScoringSansTonaliteChoisie =>
    /\ result.exc = ""
    /\ Len(ClesParNote) = Len(args.melodie)
    /\ \A i \in 1..Len(args.melodie) :
         LET locales ==
               detecter_tonalite(FenetreDeLaNote(args.melodie, args.fenetre_tonalite, i),
                                 <<>>).val
         IN  /\ locales # <<>>
             /\ ClesParNote[i].tonalite = locales[1].tonalite
             /\ ClesParNote[i].candidates = locales
             /\ \A n \in i..Len(args.melodie) :
                  LET plusCourte ==
                        ResultatMelodie(SubSeq(args.melodie, 1, n), args.tonalite_choisie,
                                        args.fenetre_tonalite, args.algorithm, None)
                  IN  /\ plusCourte.tonalites_par_note[i].tonalite = ClesParNote[i].tonalite
                      /\ plusCourte.tonalites_par_note[i].tonalites_candidates
                           = ClesParNote[i].candidates

\* a melody of four notes analysed with a window of two: the fourth note is
\* in Ré Majeur, the key of its window D F#, while the whole melody is in
\* Do Mineur
C24_Witness ==
  /\ ScoringSansTonaliteChoisie
  /\ op = "detecter_tonalite_melodie"
  /\ args.melodie = <<"C", "A#", "D", "F#">>
  /\ args.fenetre_tonalite = 2
  /\ result.val.tonalites_par_note[4].tonalite = "Ré Majeur"
  /\ result.val.tonalites_par_note[3].tonalite = "Ré Mineur"
  /\ result.val.tonalites_globales[1].tonalite = "Do Mineur"


(***************************************************************************)
(* main.py: the server.  One HarmonyEngine is built when the module is     *)
(* loaded and every request to /suggest-chords runs suggest_chords on it.  *)
(* In this part the variables pc, op, args, result and locals are          *)
(* functions of the request in flight, and hmm is the model that all the   *)
(* requests share.  A request in HMM mode runs Viterbi one note per step,  *)
(* so the steps of two requests interleave in every order, which covers    *)
(* the event loop (one handler at a time) and a pool of threads alike.     *)
(***************************************************************************)
\* the requests a server may have in flight at once
Requetes == {"r1", "r2"}

\* the bodies of the requests, MelodyRequest: window_size and algorithm may
\* be left out
CorpsDesRequetes ==
  { [notes |-> <<"C", "A#">>, chosen_key |-> None, window_size |-> <<6>>, algorithm |-> "hmm"],
    [notes |-> <<"C#", "A#", "C">>, chosen_key |-> "Ré Majeur", window_size |-> <<>>, algorithm |-> None],
    [notes |-> <<"C", "A#">>, chosen_key |-> None, window_size |-> <<2>>, algorithm |-> "scoring"],
    [notes |-> <<>>, chosen_key |-> None, window_size |-> <<0>>, algorithm |-> "hmm"] }

\* request.window_size or 6
FenetreDeLaRequete(request) ==
  IF request.window_size # <<>> /\ request.window_size[1] # 0
  THEN request.window_size[1] ELSE 6

\* request.algorithm or "hmm"
AlgorithmeDeLaRequete(request) ==
  IF Truthy(request.algorithm) THEN request.algorithm ELSE "hmm"

\* harmony_engine = HarmonyEngine(): the model is built, no request is in
\* flight
InitServeur ==
  /\ pc = [r \in Requetes |-> "idle"]
  /\ op = [r \in Requetes |-> ""]
  /\ args = [r \in Requetes |-> NoArgs]
  /\ result = [r \in Requetes |-> NoResult]
  /\ locals = [r \in Requetes |-> NoLocals]
  /\ hmm = HiddenMarkovModel

Call_suggest_chords(r) ==
  /\ pc[r] = "idle"
  /\ \E request \in CorpsDesRequetes : args' = [args EXCEPT ![r] = request]
  /\ op' = [op EXCEPT ![r] = "suggest_chords"]
  /\ pc' = [pc EXCEPT ![r] = "called"]
  /\ UNCHANGED <<result, hmm, locals>>

\* suggerer_accords_pour_melodie up to the first step of Viterbi; without a
\* decoding to run, the response is built at once
Begin_suggest_chords(r) ==
  /\ pc[r] = "called"
  /\ LET melodie   == args[r].notes
         fenetre   == FenetreDeLaRequete(args[r])
         algorithm == AlgorithmeDeLaRequete(args[r])
     IN  IF melodie = <<>>
         THEN /\ result' = [result EXCEPT ![r] = Return(ResultatPourMelodie(melodie, MelodieVide))]
              /\ pc' = [pc EXCEPT ![r] = "done"]
              /\ UNCHANGED locals
         ELSE IF algorithm = "hmm"
         THEN /\ LET obs_indices == ObsIndices(melodie)
                 IN  locals' = [locals EXCEPT ![r] =
                                  [obs_indices |-> obs_indices,
                                   tables      |-> Avancer(hmm, obs_indices, 1)]]
              /\ pc' = [pc EXCEPT ![r] = "loop"]
              /\ UNCHANGED result
         ELSE /\ result' = [result EXCEPT ![r] =
                              Return(ResultatPourMelodie(
                                       melodie,
                                       ResultatMelodie(melodie, args[r].chosen_key, fenetre,
                                                       algorithm, None)))]
              /\ pc' = [pc EXCEPT ![r] = "done"]
              /\ UNCHANGED locals
  /\ UNCHANGED <<op, args, hmm>>

\* Loop_suggest_chords as it would be if Viterbi kept a running value in the
\* shared model
Loop_suggest_chords_dansLeModele(r) ==
  /\ pc[r] = "loop"
  /\ Len(locals[r].tables.delta) < Len(locals[r].obs_indices)
  /\ locals' = [locals EXCEPT ![r].tables =
                  Prolonger(hmm, locals[r].tables,
                            locals[r].obs_indices[Len(locals[r].tables.delta) + 1])]
  /\ hmm' = [hmm EXCEPT !.initial_probabilities[1] = Frac(2, Len(Tonalites))]
  /\ UNCHANGED <<pc, op, args, result>>

\* one turn of the loop of viterbi over the notes
Loop_suggest_chords(r) ==
  /\ pc[r] = "loop"
  /\ Len(locals[r].tables.delta) < Len(locals[r].obs_indices)
  /\ locals' = [locals EXCEPT ![r].tables =
                  Prolonger(hmm, locals[r].tables,
                            locals[r].obs_indices[Len(locals[r].tables.delta) + 1])]
  /\ UNCHANGED <<pc, op, args, result, hmm>>

\* the end of viterbi, the keys of the notes and the chords: return result
Return_suggest_chords(r) ==
  /\ pc[r] = "loop"
  /\ Len(locals[r].tables.delta) = Len(locals[r].obs_indices)
  /\ result' = [result EXCEPT ![r] =
                  Return(ResultatPourMelodie(
                           args[r].notes,
                           ResultatMelodie(args[r].notes, args[r].chosen_key,
                                           FenetreDeLaRequete(args[r]),
                                           AlgorithmeDeLaRequete(args[r]),
                                           Terminaison(locals[r].tables))))]
  /\ locals' = [locals EXCEPT ![r] = NoLocals]
  /\ pc' = [pc EXCEPT ![r] = "done"]
  /\ UNCHANGED <<op, args, hmm>>

\* the response is sent
Respond_suggest_chords(r) ==
  /\ pc[r] = "done"
  /\ pc' = [pc EXCEPT ![r] = "idle"]
  /\ op' = [op EXCEPT ![r] = ""]
  /\ args' = [args EXCEPT ![r] = NoArgs]
  /\ result' = [result EXCEPT ![r] = NoResult]
  /\ UNCHANGED <<hmm, locals>>

NextServeur ==
  \E r \in Requetes :
    \/ Call_suggest_chords(r)
    \/ Begin_suggest_chords(r)
    \/ Loop_suggest_chords(r)
    \/ Return_suggest_chords(r)
    \/ Respond_suggest_chords(r)

SpecServeur == InitServeur /\ [][NextServeur]_vars

\* what suggest_chords returns for a request that runs alone on a model
\* that has just been built
ReponseSeule(request) ==
  LET melodie   == request.notes
      algorithm == AlgorithmeDeLaRequete(request)
  IN  IF melodie = <<>> THEN Return(ResultatPourMelodie(melodie, MelodieVide))
      ELSE Return(ResultatPourMelodie(
                    melodie,
                    ResultatMelodie(melodie, request.chosen_key,
                                    FenetreDeLaRequete(request), algorithm,
                                    IF algorithm = "hmm"
                                    THEN viterbi(HiddenMarkovModel, melodie).val
                                    ELSE None)))

\* C23: no operation of the engine modifies the transition matrix, the
\* emission matrix, the initial distribution or the theory tables; so under
\* any interleaving of requests each request returns the same result as when
\* run alone, and the same request run twice gives the same path and the
\* same probabilities.
C23_RequetesIndependantes ==
  /\ hmm = HiddenMarkovModel
  /\ \A r \in Requetes :
       pc[r] = "done" => result[r] = ReponseSeule(args[r])
  /\ \A r, s \in Requetes :
       (pc[r] = "done" /\ pc[s] = "done" /\ args[r] = args[s]) => result[r] = result[s]

\* a request has been answered while the same request, sent a second time,
\* is in the middle of its decoding
C23_Witness ==
  /\ pc["r1"] = "done"
  /\ pc["r2"] = "loop"
  /\ args["r1"] = args["r2"]
  /\ args["r1"].notes = <<"C#", "A#", "C">>
  /\ Len(locals["r2"].tables.delta) = 2
  /\ result["r1"].val.chosen_key = "Ré Majeur"
  /\ Len(result["r1"].val.detected_keys) > 0

====
